---- MODULE Spec2Model ----
(***************************************************************************)
(* Model of the 4100ES panel configurator: the catalog repository, the     *)
(* space calculator, the requirements builder, the category demand, the    *)
(* module optimizer (solver and greedy), the specific-module plan, the     *)
(* enclosure planner and the BOQ partitioner.                              *)
(*                                                                         *)
(* Python dicts whose iteration order the code depends on are sequences;   *)
(* the other dicts are functions whose DOMAIN is the key set.  Prices and  *)
(* footprints are the code's floats restricted to whole numbers.           *)
(***************************************************************************)
EXTENDS Integers, Sequences, FiniteSets, TLC

VARIABLES
    \* RuleRepository / RuleEngine
    cp_model,             \* the optional ortools import: loaded or None, and str(OPTIMAL)
    module_prices,        \* dict model -> price (explicit overrides)
    category_prices,      \* dict category -> default price
    modules,              \* list of ModuleDefinition
    module_index,         \* dict model -> ModuleDefinition
    category_to_modules,  \* dict category -> list of ModuleDefinition
    placement_rules,      \* list of PlacementRule
    engine,               \* "constructed" | "failed" | "none"
    \* one call in flight and what it returned
    pc,                   \* "idle" | "returned"
    call,                 \* the operation and its arguments
    result,               \* what the operation returned (or raised)
    \* MultiPanelBOQHandler
    total_boq, num_panels, panel_boqs,
    \* ProjectConfigurator.panel_configurations
    panel_configurations,
    \* QandAProcessor.answers
    self_answers

vars == <<cp_model, module_prices, category_prices, modules, module_index,
          category_to_modules, placement_rules, engine, pc, call, result,
          total_boq, num_panels, panel_boqs, panel_configurations, self_answers>>

repoVars == <<module_prices, category_prices, modules, module_index,
              category_to_modules, placement_rules>>

handlerVars == <<total_boq, num_panels, panel_boqs, panel_configurations,
                 self_answers>>

----------------------------------------------------------------------------
(* Generic helpers: Python's max/min, math.ceil of a quotient, dict access *)

Max(a, b) == IF a >= b THEN a ELSE b

Min(a, b) == IF a <= b THEN a ELSE b

\* the quotient rounded down
FloorDiv(q, n) == q \div n

\* math.ceil(q / n) for an integer q and n > 0 (the quotient is exact in
\* double precision for the counts of the model)
CeilDiv(q, n) == -((-q) \div n)

\* dict.get(key, default)
Get(d, k, default) == IF k \in DOMAIN d THEN d[k] ELSE default

\* d[k] = v
Put(d, k, v) == [x \in (DOMAIN d) \cup {k} |-> IF x = k THEN v ELSE d[x]]

EmptyDict == [x \in {} |-> 0]

RECURSIVE SeqSum(_)
SeqSum(s) == IF s = <<>> THEN 0 ELSE Head(s) + SeqSum(Tail(s))

RECURSIVE SeqMax(_, _)
\* max(values, default=d) over a list of naturals
SeqMax(s, d) ==
    IF s = <<>> THEN d
    ELSE LET rest == SeqMax(Tail(s), Head(s)) IN Max(Head(s), rest)

RECURSIVE SetSum(_, _)
\* sum of f[x] over the finite set S
SetSum(f, S) ==
    IF S = {} THEN 0
    ELSE LET x == CHOOSE y \in S : TRUE IN f[x] + SetSum(f, S \ {x})

Range(s) == {s[i] : i \in DOMAIN s}

\* index of the first element of s equal to x, 0 when absent
IndexOf(s, x) ==
    IF \E i \in DOMAIN s : s[i] = x
    THEN CHOOSE i \in DOMAIN s : s[i] = x /\ \A j \in 1..(i - 1) : s[j] # x
    ELSE 0

----------------------------------------------------------------------------
(* Text.  A string the code only compares is a TLA+ string; str.lower() is *)
(* the table LowerStr over the spellings the model uses.  A physical-size   *)
(* text is the list of its whitespace-separated tokens: a number (its       *)
(* digits), one of the words slot, slots, block, blocks, a run of letters,  *)
(* or a separator such as "/" that is none of these.                        *)

LowerStr(s) ==
    CASE s = "Internal" -> "internal"
      [] s = "DOOR" -> "door"
      [] s = "Both" -> "both"
      [] s = "Relay modules" -> "relay modules"
      [] s = "Relay Modules" -> "relay modules"
      [] s = "IDNet Modules" -> "idnet modules"
      [] s = "IDNET MODULES" -> "idnet modules"
      [] s = "Power Supplies" -> "power supplies"
      [] s = "Master Controller" -> "master controller"
      [] s = "Cabinet Assemblies" -> "cabinet assemblies"
      [] s = "Cabinet Doors" -> "cabinet doors"
      [] s = "LED-Switch (4100-0032)" -> "led-switch (4100-0032)"
      [] s = "Power" -> "power"
      [] s = "POWER" -> "power"
      [] s = "Supply" -> "supply"
      [] s = "Amplifier" -> "amplifier"
      [] s = "Display" -> "display"
      [] s = "Annunciator" -> "annunciator"
      [] s = "Audio" -> "audio"
      [] s = "Controller" -> "controller"
      [] s = "A" -> "a"
      [] s = "B" -> "b"
      [] s = "Yes" -> "yes"
      [] s = "LCD" -> "lcd"
      [] OTHER -> s

NumericClampMax == 32

Num(ds) == [k |-> "num", digits |-> ds, letters |-> <<>>]

Word(w) == [k |-> w, digits |-> <<>>, letters |-> <<>>]

Letters(ls) == [k |-> "letters", digits |-> <<>>, letters |-> ls]

Sep == [k |-> "sep", digits |-> <<>>, letters |-> <<>>]

RECURSIVE DigitsValue(_, _)
\* float(digits) of a digit string, most significant digit first
DigitsValue(ds, acc) ==
    IF ds = <<>> THEN acc ELSE DigitsValue(Tail(ds), 10 * acc + Head(ds))

RECURSIVE AllDigits(_)
\* the digit characters of a text, in order
AllDigits(text) ==
    IF text = <<>> THEN <<>> ELSE Head(text).digits \o AllDigits(Tail(text))

\* for match in pattern.finditer(text): a number directly before the word
\* (slot or slots, block or blocks); keeps the largest quantity with 0 < quantity <= 32
NumericKeywordUsage(kws, text) ==
    LET hits == {i \in 1..(Len(text) - 1) :
                    /\ text[i].k = "num"
                    /\ text[i + 1].k \in kws}
        qty(i) == DigitsValue(text[i].digits, 0)
        ok == {i \in hits : 0 < qty(i) /\ qty(i) <= NumericClampMax}
    IN  IF ok = {} THEN 0
        ELSE qty(CHOOSE i \in ok : \A j \in ok : qty(j) <= qty(i))

RECURSIVE DigitRun(_, _)
\* the digits that follow position i once the spaces are removed
DigitRun(text, i) ==
    IF i > Len(text) \/ text[i].k # "num" THEN <<>>
    ELSE text[i].digits \o DigitRun(text, i + 1)

\* slot\s*([0-9]+) on the collapsed text: the count of distinct digits
InlineSlotUsage(text) ==
    LET hits == {i \in 1..Len(text) :
                    text[i].k = "slot" /\ DigitRun(text, i + 1) # <<>>}
        val(i) == Max(1, Cardinality(Range(DigitRun(text, i + 1))))
    IN  IF hits = {} THEN 0
        ELSE val(CHOOSE i \in hits : \A j \in hits : val(j) <= val(i))

\* the characters a token contributes to the collapsed, lower-cased text
TokenChars(tok) ==
    CASE tok.k = "letters" -> [i \in DOMAIN tok.letters |-> LowerStr(tok.letters[i])]
      [] tok.k = "block" -> <<"b", "l", "o", "c", "k">>
      [] tok.k = "blocks" -> <<"b", "l", "o", "c", "k", "s">>
      [] tok.k = "slot" -> <<"s", "l", "o", "t">>
      [] tok.k = "slots" -> <<"s", "l", "o", "t", "s">>
      [] OTHER -> <<"#">>

BlockLetters == {"a", "b", "c", "d", "e", "f", "g", "h"}

RECURSIVE LeadingRun(_)
\* the longest prefix of a character list made of the letters a-h
LeadingRun(chars) ==
    IF chars = <<>> \/ Head(chars) \notin BlockLetters THEN <<>>
    ELSE <<Head(chars)>> \o LeadingRun(Tail(chars))

RECURSIVE CharsFrom(_, _)
CharsFrom(text, i) ==
    IF i > Len(text) THEN <<>> ELSE TokenChars(text[i]) \o CharsFrom(text, i + 1)

RECURSIVE BlockMatches(_, _)
\* block\s*([a-h]+) on the collapsed text, left to right without overlap:
\* the list of len(set(letters)) of each match.  A match that starts in the
\* word block and runs into a following word block(s) consumes its "b".
BlockMatches(text, i) ==
    IF i > Len(text) THEN <<>>
    ELSE IF text[i].k # "block" THEN BlockMatches(text, i + 1)
    ELSE LET run == LeadingRun(CharsFrom(text, i + 1))
             next == IF run # <<>> /\ text[i + 1].k \in {"block", "blocks"}
                     THEN i + 2 ELSE i + 1
         IN  IF run = <<>> THEN BlockMatches(text, i + 1)
             ELSE <<Max(1, Cardinality(Range(run)))>> \o BlockMatches(text, next)

InlineBlockUsage(text) == SeqMax(BlockMatches(text, 1), 0)

SpaceOverrideModels ==
    {"4100-1243", "4100-1252", "4100-1253", "4100-1254", "4100-1270", "4100-9620"}

SPACE_OVERRIDES ==
    [m \in SpaceOverrideModels |->
        CASE m = "4100-1252" -> [internal |-> 1, door |-> 1]
          [] m = "4100-9620" -> [internal |-> 8, door |-> 1]
          [] OTHER -> [internal |-> 2, door |-> 1]]

\* the footprint without the minimum presence of an active mount
DeriveSpaceUnforced(model_number, physical_size, mounted_on) ==
    LET text == physical_size
        mount == LowerStr(mounted_on)
        numeric_slots == NumericKeywordUsage({"slot", "slots"}, text)
        numeric_blocks == NumericKeywordUsage({"block", "blocks"}, text)
        inline_slots == InlineSlotUsage(text)
        inline_blocks == InlineBlockUsage(text)
        base_internal ==
            Max(Max(numeric_blocks, inline_blocks), Max(numeric_slots, inline_slots))
        base_door ==
            Max(Max(numeric_slots, inline_slots),
                Max(IF numeric_slots = 0 THEN numeric_blocks ELSE 0,
                    IF inline_slots = 0 THEN inline_blocks ELSE 0))
    IN  IF model_number \in DOMAIN SPACE_OVERRIDES THEN SPACE_OVERRIDES[model_number]
        ELSE [internal |-> IF mount \in {"internal", "both"} THEN base_internal ELSE 0,
              door |-> IF mount \in {"door", "both"} THEN base_door ELSE 0]

DeriveSpaceRequirements(model_number, physical_size, mounted_on) ==
    LET text == physical_size
        mount == LowerStr(mounted_on)
        numeric_slots == NumericKeywordUsage({"slot", "slots"}, text)
        numeric_blocks == NumericKeywordUsage({"block", "blocks"}, text)
        inline_slots == InlineSlotUsage(text)
        inline_blocks == InlineBlockUsage(text)
        base_internal ==
            Max(Max(numeric_blocks, inline_blocks), Max(numeric_slots, inline_slots))
        base_door ==
            Max(Max(numeric_slots, inline_slots),
                Max(IF numeric_slots = 0 THEN numeric_blocks ELSE 0,
                    IF inline_slots = 0 THEN inline_blocks ELSE 0))
        internal0 == IF mount \in {"internal", "both"} THEN base_internal ELSE 0
        door0 == IF mount \in {"door", "both"} THEN base_door ELSE 0
        internal1 ==
            IF mount \in {"internal", "both"} /\ internal0 <= 0
            THEN (IF mount # "door" THEN 1 ELSE 0) ELSE internal0
        door1 ==
            IF mount \in {"door", "both"} /\ door0 <= 0
            THEN (IF mount # "internal" THEN 1 ELSE 0) ELSE door0
    IN  IF model_number \in DOMAIN SPACE_OVERRIDES THEN SPACE_OVERRIDES[model_number]
        ELSE IF text = <<>> /\ mount \notin {"internal", "door", "both"}
        THEN [internal |-> 0, door |-> 0]
        ELSE IF mount = "both"
        THEN [internal |-> Max(internal1, 1), door |-> Max(door1, 1)]
        ELSE [internal |-> internal1, door |-> door1]

----------------------------------------------------------------------------
(* Catalog repository *)

\* ModuleDefinition.block_count
block_count(module) ==
    IF module.internal_space # 0 \/ module.door_space # 0
    THEN module.internal_space + module.door_space
    ELSE IF module.physical_size = <<>> THEN 0
    ELSE DigitsValue(AllDigits(module.physical_size), 0)

RECURSIVE MergeValues(_, _)
\* {value.lower(): value for value in values if value}: a later spelling of
\* a key replaces the value and keeps the key's place
MergeValues(lookup, values) ==
    IF values = <<>> THEN lookup
    ELSE LET value == Head(values)
             at == IndexOf([i \in DOMAIN lookup |-> LowerStr(lookup[i])], LowerStr(value))
         IN  IF value = "" THEN MergeValues(lookup, Tail(values))
             ELSE IF at = 0 THEN MergeValues(Append(lookup, value), Tail(values))
             ELSE MergeValues([lookup EXCEPT ![at] = value], Tail(values))

RECURSIVE MergeAdditions(_, _)
\* for value in additions: if key not in lookup: lookup[key] = value
MergeAdditions(lookup, additions) ==
    IF additions = <<>> THEN lookup
    ELSE LET value == Head(additions)
             at == IndexOf([i \in DOMAIN lookup |-> LowerStr(lookup[i])], LowerStr(value))
         IN  IF value = "" \/ at # 0 THEN MergeAdditions(lookup, Tail(additions))
             ELSE MergeAdditions(Append(lookup, value), Tail(additions))

MergeUnique(values, additions) == MergeAdditions(MergeValues(<<>>, values), additions)

\* [value.strip() for value in cell.split(",") if value.strip()], the cell
\* given as the list of its stripped comma-separated values
SplitCsv(cell) == SelectSeq(cell, LAMBDA value : value # "")

ENCLOSURE_DEFINITIONS ==
    << [model_number |-> "4100-9401", category |-> "Cabinet Assemblies", price |-> 950,
        size |-> 1, family |-> "cabinet"],
       [model_number |-> "4100-9402", category |-> "Cabinet Assemblies", price |-> 1200,
        size |-> 2, family |-> "cabinet"],
       [model_number |-> "4100-9403", category |-> "Cabinet Assemblies", price |-> 1450,
        size |-> 3, family |-> "cabinet"],
       [model_number |-> "4100-9404", category |-> "Cabinet Doors", price |-> 420,
        size |-> 1, family |-> "door_solid"],
       [model_number |-> "4100-9405", category |-> "Cabinet Doors", price |-> 520,
        size |-> 2, family |-> "door_solid"],
       [model_number |-> "4100-9406", category |-> "Cabinet Doors", price |-> 620,
        size |-> 3, family |-> "door_solid"],
       [model_number |-> "4100-9407", category |-> "Cabinet Doors", price |-> 560,
        size |-> 1, family |-> "door_glass"],
       [model_number |-> "4100-9408", category |-> "Cabinet Doors", price |-> 690,
        size |-> 2, family |-> "door_glass"],
       [model_number |-> "4100-9409", category |-> "Cabinet Doors", price |-> 820,
        size |-> 3, family |-> "door_glass"] >>

\* _build_enclosure_maps: size -> model for one family
EnclosureMap(family) ==
    LET es == {i \in DOMAIN ENCLOSURE_DEFINITIONS : ENCLOSURE_DEFINITIONS[i].family = family}
    IN  [size \in {ENCLOSURE_DEFINITIONS[i].size : i \in es} |->
            ENCLOSURE_DEFINITIONS[
                CHOOSE i \in es : ENCLOSURE_DEFINITIONS[i].size = size].model_number]

CABINET_SIZE_TO_MODEL == EnclosureMap("cabinet")

SOLID_DOOR_SIZE_TO_MODEL == EnclosureMap("door_solid")

GLASS_DOOR_SIZE_TO_MODEL == EnclosureMap("door_glass")

SYNTHETIC_MODULES ==
    [i \in DOMAIN ENCLOSURE_DEFINITIONS |->
        [model_number |-> ENCLOSURE_DEFINITIONS[i].model_number,
         specification_categories |-> <<ENCLOSURE_DEFINITIONS[i].category>>,
         physical_size |-> <<>>,
         mounted_on |-> "",
         price |-> ENCLOSURE_DEFINITIONS[i].price,
         internal_space |-> 0,
         door_space |-> 0]]

\* position of a model in the insertion-ordered module_lookup, 0 when absent
LookupIndex(module_lookup, model_number) ==
    IndexOf([i \in DOMAIN module_lookup |-> module_lookup[i].model_number], model_number)

\* the price attached to one workbook row
RowPrice(record, mprices, cprices) ==
    LET spec_categories == SplitCsv(record.spec_categories)
    IN  IF record.model_number \in DOMAIN mprices THEN mprices[record.model_number]
        ELSE IF spec_categories # <<>> THEN Get(cprices, spec_categories[1], 0)
        ELSE 0

\* one iteration of the loop over sheet.records()
LoadRecord(module_lookup, record, mprices, cprices) ==
    LET model_number == record.model_number
        spec_categories == SplitCsv(record.spec_categories)
        price == RowPrice(record, mprices, cprices)
        space == DeriveSpaceRequirements(model_number, record.physical_size, record.mounted_on)
        at == LookupIndex(module_lookup, model_number)
        module == module_lookup[at]
    IN  IF model_number = "" THEN module_lookup
        ELSE IF at # 0
        THEN [module_lookup EXCEPT ![at] =
                [module EXCEPT
                    !.specification_categories =
                        MergeUnique(module.specification_categories, spec_categories),
                    !.physical_size =
                        IF module.physical_size = <<>> THEN record.physical_size
                        ELSE module.physical_size,
                    !.mounted_on =
                        IF module.mounted_on = "" THEN record.mounted_on
                        ELSE module.mounted_on,
                    !.price = IF module.price <= 0 /\ price > 0 THEN price ELSE module.price,
                    !.internal_space = Max(module.internal_space, space.internal),
                    !.door_space = Max(module.door_space, space.door)]]
        ELSE Append(module_lookup,
                [model_number |-> model_number,
                 specification_categories |-> spec_categories,
                 physical_size |-> record.physical_size,
                 mounted_on |-> record.mounted_on,
                 price |-> price,
                 internal_space |-> space.internal,
                 door_space |-> space.door])

RECURSIVE LoadRecords(_, _, _, _)
LoadRecords(module_lookup, records, mprices, cprices) ==
    IF records = <<>> THEN module_lookup
    ELSE LoadRecords(LoadRecord(module_lookup, Head(records), mprices, cprices),
                     Tail(records), mprices, cprices)

\* one iteration of the loop over SYNTHETIC_MODULES
MergeSynthetic(module_lookup, synthetic) ==
    LET at == LookupIndex(module_lookup, synthetic.model_number)
        existing == module_lookup[at]
    IN  IF at # 0
        THEN [module_lookup EXCEPT ![at] =
                [existing EXCEPT
                    !.price = IF existing.price <= 0 /\ synthetic.price > 0
                              THEN synthetic.price ELSE existing.price,
                    !.specification_categories =
                        MergeUnique(existing.specification_categories,
                                    synthetic.specification_categories)]]
        ELSE Append(module_lookup, synthetic)

RECURSIVE MergeSynthetics(_, _)
MergeSynthetics(module_lookup, synthetics) ==
    IF synthetics = <<>> THEN module_lookup
    ELSE MergeSynthetics(MergeSynthetic(module_lookup, Head(synthetics)), Tail(synthetics))

\* RuleRepository._load_modules: the module list, in insertion order
LoadModules(records, mprices, cprices) ==
    MergeSynthetics(LoadRecords(<<>>, records, mprices, cprices), SYNTHETIC_MODULES)

RECURSIVE CategoryAppend(_, _, _)
\* for category in module.specification_categories:
\*     category_to_modules.setdefault(category, []).append(module)
CategoryAppend(index, module, categories) ==
    IF categories = <<>> THEN index
    ELSE CategoryAppend(
            Put(index, Head(categories), Append(Get(index, Head(categories), <<>>), module)),
            module, Tail(categories))

RECURSIVE BuildCategoryIndex(_, _)
BuildCategoryIndex(index, mods) ==
    IF mods = <<>> THEN index
    ELSE BuildCategoryIndex(
            CategoryAppend(index, Head(mods), Head(mods).specification_categories),
            Tail(mods))

\* {module.model_number: module for module in self.modules}
BuildModuleIndex(mods) ==
    [m \in {mods[i].model_number : i \in DOMAIN mods} |->
        mods[CHOOSE i \in DOMAIN mods : mods[i].model_number = m]]

DefaultCategoryPrices ==
    [c \in {"Master Controller", "Power Supplies", "EPS & Accessories", "IDNet Modules",
            "Notification Modules", "Audio Options (S4100-0104)", "Telephone (S4100-0104)",
            "LED-Switch (4100-0032)", "Relay Modules", "VCC Interfaces (S4100-0104)"} |->
        CASE c = "Master Controller" -> 4500
          [] c = "Power Supplies" -> 1200
          [] c = "EPS & Accessories" -> 1600
          [] c = "IDNet Modules" -> 950
          [] c = "Notification Modules" -> 900
          [] c = "Audio Options (S4100-0104)" -> 1800
          [] c = "Telephone (S4100-0104)" -> 750
          [] c = "LED-Switch (4100-0032)" -> 650
          [] c = "Relay Modules" -> 500
          [] c = "VCC Interfaces (S4100-0104)" -> 900]

NoPricing == [given |-> FALSE, module_overrides |-> EmptyDict, category_defaults |-> EmptyDict]

\* _load_pricing_overrides: the two price tables
LoadPricingOverrides(pricing) ==
    IF pricing.given
    THEN [module_prices |-> pricing.module_overrides,
          category_prices |-> pricing.category_defaults]
    ELSE [module_prices |-> EmptyDict, category_prices |-> DefaultCategoryPrices]

GuardrailCost == 1000

\* RuleRepository.get_module: the module, or None
None == [model_number |-> "None"]

get_module(model_number) == Get(module_index, model_number, None)

\* RuleRepository.estimate_cost
estimate_cost(model_number, quantity) ==
    LET module == get_module(model_number)
    IN  IF module # None /\ module.price > 0 THEN module.price * quantity
        ELSE IF model_number \in DOMAIN module_prices
        THEN module_prices[model_number] * quantity
        ELSE IF /\ module # None
                /\ module.specification_categories # <<>>
                /\ module.specification_categories[1] \in DOMAIN category_prices
        THEN category_prices[module.specification_categories[1]] * quantity
        ELSE GuardrailCost * quantity

----------------------------------------------------------------------------
(* Requirements builder and category demand *)

LoopDevicesPerIdnetModule == 500

NacDevicesPerCircuit == 14

DamperRelayFloor == 8

WattsPerSpeaker == 15

JacksPerPhoneCircuit == 10

\* RuleEngine.build_requirements
build_requirements(answers, boq) ==
    LET loop_devices ==
            boq.smoke_detector + boq.heat_detector + boq.duct_detector
            + boq.beam_detector + boq.manual_station + boq.monitor_module
            + boq.control_relay
        idnet_modules_required ==
            IF loop_devices # 0
            THEN Max(1, CeilDiv(loop_devices, LoopDevicesPerIdnetModule)) ELSE 1
        nac_devices ==
            boq.horn_strobe + boq.strobe_only + boq.horn_only
            + boq.addressable_horn_strobe + boq.addressable_strobe + boq.speaker_strobe
        nac_circuits_required ==
            IF nac_devices # 0 THEN CeilDiv(nac_devices, NacDevicesPerCircuit) ELSE 0
        speaker_total == boq.speaker + boq.speaker_strobe
        relay0 == boq.control_relay + answers.smoke_management_relay_count
        relay1 ==
            IF answers.fire_damper_feedback \/ answers.fire_damper_led_indication
            THEN Max(relay0, DamperRelayFloor) ELSE relay0
        relay_count == IF answers.door_holder_voltage = "220vac" THEN relay1 + 1 ELSE relay1
        speaker_wattage ==
            IF answers.speaker_wattage <= 0 /\ speaker_total > 0
            THEN speaker_total * WattsPerSpeaker ELSE answers.speaker_wattage
        fire_phone_circuits ==
            IF boq.fire_phone_jack # 0
            THEN CeilDiv(boq.fire_phone_jack, JacksPerPhoneCircuit) ELSE 0
        requires_network_cards ==
            \/ answers.has_graphics_command_center
            \/ answers.graphics_software_type \in {"view_only", "full_control"}
            \/ answers.network_type # "none"
        links0 == IF requires_network_cards THEN 1 ELSE 0
        links1 == IF answers.network_type \in {"smfo", "mmfo"} THEN Max(links0, 2) ELSE links0
        network_links ==
            IF answers.graphics_software_type = "full_control" THEN Max(links1, 2) ELSE links1
    IN  [protocol |-> answers.protocol,
         voice_evacuation |-> answers.audio_type # "no_audio",
         prefer_addressable_nac |-> answers.use_addressable_nac,
         has_fire_phone |-> answers.has_fire_phone \/ fire_phone_circuits > 0,
         has_led_switches |->
            answers.audio_control_led_switches \/ answers.monitor_modules_with_leds,
         has_smoke_management |-> answers.has_smoke_management,
         has_door_holder_220vac |-> answers.door_holder_voltage = "220vac",
         monitor_leds |-> answers.monitor_modules_with_leds,
         graphics_control |-> answers.graphics_software_type = "full_control",
         speaker_wattage |-> speaker_wattage,
         speaker_count |-> speaker_total,
         fire_phone_circuits |-> fire_phone_circuits,
         nac_circuits_required |-> nac_circuits_required,
         slc_loops_required |-> idnet_modules_required * 2,
         relay_count |-> relay_count,
         loop_device_count |-> loop_devices,
         nac_device_count |-> nac_devices,
         idnet_modules_required |-> idnet_modules_required,
         requires_printer |-> answers.has_panel_printer,
         requires_network_cards |-> requires_network_cards,
         network_links |-> network_links,
         nac_class_a |-> answers.nac_class_a_wiring,
         speaker_class_a |-> answers.speaker_class_a_wiring,
         constant_supervision |-> answers.constant_supervision_speaker,
         requires_led_packages |->
            \/ answers.audio_control_led_switches
            \/ answers.monitor_modules_with_leds
            \/ answers.fire_damper_led_indication,
         fire_damper_control |->
            answers.fire_damper_feedback \/ answers.fire_damper_led_indication,
         dual_amplifier_per_zone |-> answers.dual_amplifier_per_zone,
         backup_amp_one_to_one |-> answers.backup_amplifier_one_to_one,
         backup_amp_one_for_all |-> answers.backup_amplifier_one_for_all]

\* A category demand is the dict in insertion order: a list of
\* [category, quantity] entries with distinct categories.
DemandGet(cr, category, default) ==
    LET at == IndexOf([i \in DOMAIN cr |-> cr[i].category], category)
    IN  IF at = 0 THEN default ELSE cr[at].quantity

DemandCategories(cr) == {cr[i].category : i \in DOMAIN cr}

\* the local function ensure of derive_category_requirements
ensure(cr, category, quantity) ==
    LET at == IndexOf([i \in DOMAIN cr |-> cr[i].category], category)
    IN  IF quantity <= 0 THEN cr
        ELSE IF at = 0 THEN Append(cr, [category |-> category, quantity |-> quantity])
        ELSE [cr EXCEPT ![at].quantity = Max(cr[at].quantity, quantity)]

\* the door-holder relay added only to a Relay Modules entry that exists
RelayForDoorHolderIfPresent(condition, cr) ==
    IF condition /\ DemandGet(cr, "Relay Modules", 0) > 0
    THEN ensure(cr, "Relay Modules", DemandGet(cr, "Relay Modules", 0) + 1)
    ELSE cr

\* if requirements.has_door_holder_220vac:
\*     ensure("Relay Modules", category_requirements.get("Relay Modules", 0) + 1)
RelayForDoorHolder(condition, cr) ==
    IF condition THEN ensure(cr, "Relay Modules", DemandGet(cr, "Relay Modules", 0) + 1)
    ELSE cr

\* if condition: ensure(category, quantity)
EnsureWhen(condition, cr, category, quantity) ==
    IF condition THEN ensure(cr, category, quantity) ELSE cr

\* RuleEngine.derive_category_requirements
derive_category_requirements(requirements) ==
    LET r == requirements
        c1 == ensure(<<>>, "Master Controller", 1)
        c2 == ensure(c1, "Power Supplies",
                     Max(1, CeilDiv(Max(r.nac_circuits_required, 1), 3)))
        nac_power_padding ==
            IF r.nac_device_count # 0 THEN CeilDiv(r.nac_device_count, 56) ELSE 0
        c3 == ensure(c2, "EPS & Accessories",
                     Max(1, CeilDiv(r.speaker_wattage, 400) + nac_power_padding))
        c4 == ensure(c3, "IDNet Modules", r.idnet_modules_required)
        c5 == EnsureWhen(r.nac_circuits_required # 0, c4, "Notification Modules",
                         Max(1, CeilDiv(r.nac_circuits_required,
                                        IF r.prefer_addressable_nac THEN 2 ELSE 3)))
        c6a == EnsureWhen(r.voice_evacuation, c5, "Audio Options (S4100-0104)",
                          Max(1, CeilDiv(r.speaker_wattage, 100)))
        c6 == EnsureWhen(r.voice_evacuation, c6a, "VCC Interfaces (S4100-0104)", 1)
        c7 == EnsureWhen(r.has_fire_phone, c6, "Telephone (S4100-0104)",
                         Max(1, r.fire_phone_circuits))
        c8 == EnsureWhen(r.requires_led_packages, c7, "LED-Switch (4100-0032)", 1)
        c9 == EnsureWhen(r.has_smoke_management \/ r.relay_count # 0, c8, "Relay Modules",
                         Max(1, CeilDiv(Max(1, r.relay_count), 3)))
        c10 == EnsureWhen(r.graphics_control, c9, "Master Controller", 1)
        c11 == RelayForDoorHolder(r.has_door_holder_220vac, c10)
    IN  SelectSeq(c11, LAMBDA entry : entry.quantity > 0)

----------------------------------------------------------------------------
(* Space summary, specific-module plan and enclosure planner *)

INTERNAL_BLOCKS_PER_BAY == 8

DOOR_SLOTS_PER_BAY == 8

MODULE_ALIASES ==
    [MASTER_CONTROLLER |-> "4100-9701",
     IDNET_DUAL_LOOP |-> "4100-3109",
     POWER_SUPPLY_MAIN |-> "4100-5311",
     POWER_SUPPLY_EXPANSION |-> "4100-5325",
     IDNAC_MODULE |-> "4100-5451",
     CONVENTIONAL_NAC |-> "4100-5450",
     NAC_CLASS_A |-> "4100-1246",
     NAC_SUPERVISION |-> "4100-1266",
     AUDIO_BASE |-> "4100-9620",
     AUDIO_OPERATOR |-> "4100-1254",
     AUDIO_AMPLIFIER |-> "4100-1248",
     AUDIO_CLASS_A |-> "4100-1249",
     FIRE_PHONE |-> "4100-1270",
     LED_CONTROLLER |-> "4100-1288",
     PRINTER |-> "4100-1293",
     RS232 |-> "4100-6038",
     NETWORK_INTERFACE |-> "4100-6080",
     RELAY_MODULE |-> "4100-6033",
     RELAY_ZONE |-> "4100-5013"]

\* RuleEngine._summarise_space_usage: (space_usage, bay_allocation)
summarise_space_usage(module_selection) ==
    LET known == {m \in DOMAIN module_selection : get_module(m) # None}
        internal ==
            SetSum([m \in known |-> get_module(m).internal_space * module_selection[m]],
                   known)
        door ==
            SetSum([m \in known |-> get_module(m).door_space * module_selection[m]], known)
        internal_bays ==
            IF internal > 0 THEN CeilDiv(internal, INTERNAL_BLOCKS_PER_BAY) ELSE 0
        door_bays == IF door > 0 THEN CeilDiv(door, DOOR_SLOTS_PER_BAY) ELSE 0
    IN  [space_usage |-> [internal_blocks |-> internal, door_slots |-> door],
         bay_allocation |->
            [internal_bays |-> internal_bays,
             door_bays |-> door_bays,
             recommended_bays |-> Max(internal_bays, door_bays)]]

\* add with its guard one too high: a single unit is dropped
AddAboveOne(plan, model, quantity) ==
    IF quantity <= 1 THEN plan ELSE Put(plan, model, Max(Get(plan, model, 0), quantity))

\* add with the quantity ignored: one unit of the model
AddOne(plan, model, quantity) ==
    IF quantity <= 0 THEN plan ELSE Put(plan, model, 1)

\* the local function add of _derive_specific_modules
add(plan, model, quantity) ==
    IF quantity <= 0 THEN plan ELSE Put(plan, model, Max(Get(plan, model, 0), quantity))

\* the amplifier count with the doubling applied once per flag
AmplifiersDoubledPerFlag(r) ==
    LET amplifiers == Max(1, CeilDiv(r.speaker_wattage, 100))
        once == IF r.backup_amp_one_to_one THEN amplifiers * 2 ELSE amplifiers
        twice == IF r.dual_amplifier_per_zone THEN once * 2 ELSE once
    IN  IF r.backup_amp_one_to_one \/ r.dual_amplifier_per_zone THEN twice
        ELSE IF r.backup_amp_one_for_all THEN amplifiers + 1
        ELSE amplifiers

\* the amplifier count of _derive_specific_modules
Amplifiers(r) ==
    LET amplifiers == Max(1, CeilDiv(r.speaker_wattage, 100))
    IN  IF r.backup_amp_one_to_one \/ r.dual_amplifier_per_zone THEN amplifiers * 2
        ELSE IF r.backup_amp_one_for_all THEN amplifiers + 1
        ELSE amplifiers

\* the add without its condition
AddUnconditional(condition, plan, model, quantity) == add(plan, model, quantity)

\* if condition: add(model, quantity)
AddWhen(condition, plan, model, quantity) ==
    IF condition THEN add(plan, model, quantity) ELSE plan

\* RuleEngine._derive_specific_modules
derive_specific_modules(requirements) ==
    LET r == requirements
        A == MODULE_ALIASES
        nac == r.nac_circuits_required # 0
        p1 == add(EmptyDict, A.MASTER_CONTROLLER, 1)
        p2 == add(p1, A.POWER_SUPPLY_MAIN, 1)
        p3 == add(p2, A.IDNET_DUAL_LOOP, r.idnet_modules_required)
        p4 == AddWhen(r.idnet_modules_required > 1, p3, A.POWER_SUPPLY_EXPANSION,
                      r.idnet_modules_required - 1)
        p5a == AddWhen(nac /\ r.prefer_addressable_nac, p4, A.IDNAC_MODULE,
                       CeilDiv(r.nac_circuits_required, 2))
        p5 == AddWhen(nac /\ ~r.prefer_addressable_nac, p5a, A.CONVENTIONAL_NAC,
                      CeilDiv(r.nac_circuits_required, 3))
        p6 == AddWhen(r.nac_class_a, p5, A.NAC_CLASS_A,
                      Max(1, CeilDiv(r.nac_circuits_required, 3)))
        p7 == AddWhen(r.constant_supervision, p6, A.NAC_SUPERVISION,
                      Max(1, CeilDiv(r.nac_circuits_required, 4)))
        a1 == AddWhen(r.voice_evacuation, p7, A.AUDIO_BASE, 1)
        a2 == AddWhen(r.voice_evacuation, a1, A.AUDIO_OPERATOR, 1)
        a3 == AddWhen(r.voice_evacuation, a2, A.AUDIO_AMPLIFIER, Amplifiers(r))
        p8 == AddWhen(r.voice_evacuation /\ r.speaker_class_a, a3, A.AUDIO_CLASS_A,
                      Max(1, CeilDiv(r.speaker_count, 2)))
        p9 == AddWhen(r.has_fire_phone, p8, A.FIRE_PHONE,
                      Max(1, CeilDiv(Max(1, r.fire_phone_circuits), 3)))
        p10 == AddWhen(r.requires_led_packages, p9, A.LED_CONTROLLER, 1)
        p11a == AddWhen(r.requires_printer, p10, A.PRINTER, 1)
        p11 == AddWhen(r.requires_printer, p11a, A.RS232, 1)
        p12 == AddWhen(r.requires_network_cards, p11, A.NETWORK_INTERFACE,
                       Max(1, r.network_links))
        total_relays ==
            IF r.has_door_holder_220vac THEN Max(r.relay_count, r.relay_count + 1)
            ELSE r.relay_count
        p13 == AddWhen(r.fire_damper_control, p12, A.RELAY_ZONE,
                       Max(1, CeilDiv(Max(8, total_relays), 8)))
    IN  AddWhen(~r.fire_damper_control /\ total_relays # 0, p13, A.RELAY_MODULE,
                Max(1, CeilDiv(total_relays, 3)))

RECURSIVE SortedAsc(_)
\* the keys in ascending order
SortedAsc(S) ==
    IF S = {} THEN <<>>
    ELSE LET low == CHOOSE x \in S : \A y \in S : x <= y
         IN  <<low>> \o SortedAsc(S \ {low})

RECURSIVE SortedDesc(_)
\* sorted(keys, reverse=True)
SortedDesc(S) ==
    IF S = {} THEN <<>>
    ELSE LET top == CHOOSE x \in S : \A y \in S : y <= x
         IN  <<top>> \o SortedDesc(S \ {top})

RECURSIVE AllocateLoop(_, _, _, _, _)
\* the for loop of _allocate_enclosure_sizes from index idx on:
\* [plan, remaining] when it ends
AllocateLoop(plan, sizes, idx, remaining, size_to_model) ==
    IF idx > Len(sizes) \/ remaining <= 0 THEN [plan |-> plan, remaining |-> remaining]
    ELSE LET size == sizes[idx]
             count0 == remaining \div size
             count == IF count0 = 0 /\ idx = Len(sizes) THEN 1 ELSE count0
             model == size_to_model[size]
         IN  IF count <= 0
             THEN AllocateLoop(plan, sizes, idx + 1, remaining, size_to_model)
             ELSE AllocateLoop(Put(plan, model, Get(plan, model, 0) + count), sizes,
                               idx + 1, remaining - size * count, size_to_model)

\* _allocate_enclosure_sizes
allocate_enclosure_sizes(required_bays, size_to_model) ==
    LET sizes == SortedDesc(DOMAIN size_to_model)
        done == AllocateLoop(EmptyDict, sizes, 1, required_bays, size_to_model)
        smallest == size_to_model[sizes[Len(sizes)]]
    IN  IF required_bays <= 0 \/ DOMAIN size_to_model = {} THEN EmptyDict
        ELSE IF done.remaining > 0
        THEN Put(done.plan, smallest, Get(done.plan, smallest, 0) + 1)
        ELSE done.plan

\* the local function merge of _derive_enclosure_modules (the keys of the
\* two sources are disjoint SKUs or add up)
merge(plan, source) ==
    LET keep == {m \in DOMAIN source : source[m] > 0}
    IN  [m \in (DOMAIN plan) \cup keep |->
            Get(plan, m, 0) + (IF m \in keep THEN source[m] ELSE 0)]

\* the enclosure plan with solid doors whatever the door usage
derive_enclosure_modules_solid(module_selection) ==
    LET summary == summarise_space_usage(module_selection)
        required_bays == Max(1, summary.bay_allocation.recommended_bays)
    IN  merge(merge(EmptyDict, allocate_enclosure_sizes(required_bays, CABINET_SIZE_TO_MODEL)),
              allocate_enclosure_sizes(required_bays, SOLID_DOOR_SIZE_TO_MODEL))

\* RuleEngine._derive_enclosure_modules
derive_enclosure_modules(module_selection) ==
    LET summary == summarise_space_usage(module_selection)
        required_bays == Max(1, summary.bay_allocation.recommended_bays)
        door_map ==
            IF summary.space_usage.door_slots > 0 THEN GLASS_DOOR_SIZE_TO_MODEL
            ELSE SOLID_DOOR_SIZE_TO_MODEL
    IN  merge(merge(EmptyDict, allocate_enclosure_sizes(required_bays, CABINET_SIZE_TO_MODEL)),
              allocate_enclosure_sizes(required_bays, door_map))

----------------------------------------------------------------------------
(* Module optimizer: the CP-SAT model and the greedy fallback *)

\* the order of Python's str comparison on the model numbers of the model
\* (equal length, equal prefix: the order of the four digits)
ModelRank(m) ==
    CASE m = "4100-0620" -> 620
      [] m = "4100-0632" -> 632
      [] m = "4100-1243" -> 1243
      [] m = "4100-1246" -> 1246
      [] m = "4100-1248" -> 1248
      [] m = "4100-1249" -> 1249
      [] m = "4100-1252" -> 1252
      [] m = "4100-1253" -> 1253
      [] m = "4100-1254" -> 1254
      [] m = "4100-1266" -> 1266
      [] m = "4100-1270" -> 1270
      [] m = "4100-1288" -> 1288
      [] m = "4100-1293" -> 1293
      [] m = "4100-3109" -> 3109
      [] m = "4100-5013" -> 5013
      [] m = "4100-5311" -> 5311
      [] m = "4100-5325" -> 5325
      [] m = "4100-5450" -> 5450
      [] m = "4100-5451" -> 5451
      [] m = "4100-6033" -> 6033
      [] m = "4100-6038" -> 6038
      [] m = "4100-6080" -> 6080
      [] m = "4100-9401" -> 9401
      [] m = "4100-9402" -> 9402
      [] m = "4100-9403" -> 9403
      [] m = "4100-9404" -> 9404
      [] m = "4100-9405" -> 9405
      [] m = "4100-9406" -> 9406
      [] m = "4100-9407" -> 9407
      [] m = "4100-9408" -> 9408
      [] m = "4100-9409" -> 9409
      [] m = "4100-9620" -> 9620
      [] m = "4100-9701" -> 9701

\* the sort key (price if price > 0 else inf, block_count, model_number):
\* a sorts before b, or is b
GreedyKeyLeq(a, b) ==
    LET pa == a.price > 0
        pb == b.price > 0
        price_lt == (pa /\ ~pb) \/ (pa /\ pb /\ a.price < b.price)
        price_eq == (~pa /\ ~pb) \/ (pa /\ pb /\ a.price = b.price)
    IN  \/ price_lt
        \/ /\ price_eq
           /\ \/ block_count(a) < block_count(b)
              \/ /\ block_count(a) = block_count(b)
                 /\ ModelRank(a.model_number) <= ModelRank(b.model_number)

\* modules[0] of the sorted module list of a category
GreedyChosen(mods) ==
    CHOOSE m \in Range(mods) : \A other \in Range(mods) : GreedyKeyLeq(m, other)

RECURSIVE GreedyLoop(_, _)
\* the loop of _build_greedy_selection over category_requirements.items()
GreedyLoop(module_selection, cr) ==
    IF cr = <<>> THEN module_selection
    ELSE LET mods == Get(category_to_modules, Head(cr).category, <<>>)
         IN  IF mods = <<>> THEN GreedyLoop(module_selection, Tail(cr))
             ELSE GreedyLoop(
                    Put(module_selection, GreedyChosen(mods).model_number, Head(cr).quantity),
                    Tail(cr))

\* RuleEngine._build_greedy_selection: the fields optimise_panel reads
build_greedy_selection(category_requirements) ==
    [module_selection |-> GreedyLoop(EmptyDict, category_requirements),
     solver_status |-> "GREEDY"]

SolverVarMax == 20

\* the objective coefficient of a module
Weight(module) ==
    LET unit_cost == IF module.price > 0 THEN module.price
                     ELSE IF block_count(module) # 0 THEN block_count(module) ELSE 1
    IN  Max(1, unit_cost * 100)

\* sum(variables[module.model_number] for module in modules) >= min_quantity
\* for every demanded category that has modules
Covers(assignment, cr) ==
    \A i \in DOMAIN cr :
        LET mods == Get(category_to_modules, cr[i].category, <<>>)
        IN  mods = <<>> \/
            SeqSum([j \in DOMAIN mods |-> Get(assignment, mods[j].model_number, 0)])
                >= cr[i].quantity

Objective(assignment) ==
    SetSum([m \in DOMAIN assignment |-> Weight(module_index[m]) * assignment[m]],
           DOMAIN assignment)

\* the models of the demanded categories
DemandedModels(cr) ==
    UNION {{mods.model_number : mods \in Range(Get(category_to_modules, cr[i].category, <<>>))}
            : i \in DOMAIN cr}

\* the largest demanded quantity (no optimal assignment exceeds it)
MaxDemand(cr) == SeqMax([i \in DOMAIN cr |-> cr[i].quantity], 0)

\* the assignments of minimal objective among those that cover the demand
OptimalAssignments(cr) ==
    LET cands == [DemandedModels(cr) -> 0..Min(SolverVarMax, MaxDemand(cr))]
        feasible == {a \in cands : Covers(a, cr)}
    IN  {a \in feasible : \A b \in feasible : Objective(a) <= Objective(b)}

\* the entries solver.Value gives a non-zero quantity
NonZero(assignment) ==
    [m \in {x \in DOMAIN assignment : assignment[x] # 0} |-> assignment[m]]

MaxSolverSlack == 1

\* the modules a non-optimal answer may hold in excess: those of the demanded
\* categories and the one-bay cabinet
SlackModels(cr) == DemandedModels(cr) \cup {CABINET_SIZE_TO_MODEL[1]}

\* a feasible assignment the solver may stop at without proving it optimal:
\* an optimal one, or one with up to MaxSolverSlack more units of one module
FeasibleAssignments(cr) ==
    LET opt == OptimalAssignments(cr)
    IN  opt \cup
        UNION {{Put(a, m, Get(a, m, 0) + k) :
                    m \in {x \in SlackModels(cr) :
                            Get(a, x, 0) + MaxSolverSlack <= SolverVarMax},
                    k \in 1..MaxSolverSlack}
                : a \in opt}

\* RuleEngine._build_solver: the fields optimise_panel reads, for every
\* answer of the solver (OPTIMAL, FEASIBLE, or any other status, which the
\* time limit can always produce)
build_solver(category_requirements) ==
    {[module_selection |-> NonZero(a), solver_status |-> cp_model.OPTIMAL]
        : a \in OptimalAssignments(category_requirements)}
    \cup {[module_selection |-> NonZero(a), solver_status |-> "FEASIBLE"]
            : a \in FeasibleAssignments(category_requirements)}
    \cup {[module_selection |-> EmptyDict, solver_status |-> "INFEASIBLE"]}

\* the merge as dict.update: the plan's quantity replaces the optimizer's
MergePlanOverwrite(module_selection, manual_plan) ==
    [m \in (DOMAIN module_selection) \cup (DOMAIN manual_plan) |->
        IF m \in DOMAIN manual_plan THEN manual_plan[m] ELSE module_selection[m]]

\* the merge of the optimizer's selection with the plan
MergePlan(module_selection, manual_plan) ==
    [m \in (DOMAIN module_selection) \cup (DOMAIN manual_plan) |->
        IF m \in DOMAIN manual_plan
        THEN Max(Get(module_selection, m, 0), manual_plan[m])
        ELSE module_selection[m]]

\* the addition of the enclosure plan
AddEnclosures(module_selection, enclosure_plan) ==
    [m \in (DOMAIN module_selection) \cup (DOMAIN enclosure_plan) |->
        IF m \in DOMAIN enclosure_plan
        THEN Get(module_selection, m, 0) + enclosure_plan[m]
        ELSE module_selection[m]]

\* the status suffix
PlanStatus(solver_status) ==
    IF solver_status # "" THEN solver_status \o "+PLAN" ELSE "PLAN"

\* RuleEngine.optimise_panel after the optimizer stage: the returned
\* OptimizationResult, with the locals the merge went through
optimise_panel(answers, boq, solver_result) ==
    LET requirements == build_requirements(answers, boq)
        category_requirements == derive_category_requirements(requirements)
        manual_plan == derive_specific_modules(requirements)
        merged == MergePlan(solver_result.module_selection, manual_plan)
        enclosure_plan == derive_enclosure_modules(merged)
        module_selection == AddEnclosures(merged, enclosure_plan)
        summary == summarise_space_usage(module_selection)
    IN  [category_requirements |-> category_requirements,
         module_selection |-> module_selection,
         estimated_cost |->
            SetSum([m \in DOMAIN module_selection |-> estimate_cost(m, module_selection[m])],
                   DOMAIN module_selection),
         solver_status |-> PlanStatus(solver_result.solver_status),
         space_usage |-> summary.space_usage,
         bay_allocation |-> summary.bay_allocation,
         optimizer |-> solver_result.module_selection,
         manual_plan |-> manual_plan,
         enclosure_plan |-> enclosure_plan]

\* solver_result = self._build_solver(...); if None: the greedy selection
OptimizerResults(category_requirements) ==
    IF cp_model.loaded THEN build_solver(category_requirements)
    ELSE {build_greedy_selection(category_requirements)}

----------------------------------------------------------------------------
(* Placement rules.  A rule text or keyword is the list of its words; a    *)
(* substring test is a test for a contiguous sub-list of words.            *)

LowerText(text) == [i \in DOMAIN text |-> LowerStr(text[i])]

\* needle in haystack
Contains(haystack, needle) ==
    \E i \in 0..(Len(haystack) - Len(needle)) :
        \A j \in 1..Len(needle) : haystack[i + j] = needle[j]

\* the index of the first non-empty cell of a row, 0 when all are empty
FirstCell(row) ==
    IF \E i \in DOMAIN row : row[i] # <<>>
    THEN CHOOSE i \in DOMAIN row : row[i] # <<>> /\ \A j \in 1..(i - 1) : row[j] = <<>>
    ELSE 0

RECURSIVE PlacementLoop(_, _, _)
\* the loop of _load_placement_rules over sheet.rows
PlacementLoop(rules, hierarchy, rows) ==
    IF rows = <<>> THEN rules
    ELSE LET row == Head(rows)
             idx == FirstCell(row)
             hierarchy2 ==
                [i \in DOMAIN hierarchy |->
                    IF i = idx THEN row[idx] ELSE IF i > idx THEN <<>> ELSE hierarchy[i]]
             path == SelectSeq(SubSeq(hierarchy2, 1, idx - 1), LAMBDA label : label # <<>>)
         IN  IF idx = 0 THEN PlacementLoop(rules, hierarchy, Tail(rows))
             ELSE IF path # <<>>
             THEN PlacementLoop(Append(rules, [path |-> path, text |-> row[idx]]),
                                hierarchy2, Tail(rows))
             ELSE PlacementLoop(rules, hierarchy2, Tail(rows))

\* RuleRepository._load_placement_rules
LoadPlacementRules(rows) ==
    IF rows = <<>> THEN <<>>
    ELSE PlacementLoop(<<>>, [i \in DOMAIN rows[1] |-> <<>>], rows)

RECURSIVE FlattenTexts(_)
\* the words of the rule texts, in rule order, as written
FlattenTexts(rules) ==
    IF rules = <<>> THEN <<>> ELSE Head(rules).text \o FlattenTexts(Tail(rules))

RECURSIVE JoinTexts(_)
\* " ".join(rule.text.lower() for rule in rules)
JoinTexts(rules) ==
    IF rules = <<>> THEN <<>> ELSE LowerText(Head(rules).text) \o JoinTexts(Tail(rules))

\* the check without rule.text.lower()
MissingKeywordsCaseSensitive(required_keywords) ==
    LET catalogue == FlattenTexts(placement_rules)
    IN  SelectSeq(required_keywords,
                  LAMBDA keyword : ~Contains(catalogue, LowerText(keyword)))

\* RuleRepository.ensure_rule_keywords: the list missing; the call raises
\* ValueError naming it when it is not empty
MissingKeywords(required_keywords) ==
    LET catalogue == JoinTexts(placement_rules)
    IN  SelectSeq(required_keywords,
                  LAMBDA keyword : ~Contains(catalogue, LowerText(keyword)))

ensure_rule_keywords(required_keywords) ==
    LET missing == MissingKeywords(required_keywords)
    IN  [op |-> "ensure_rule_keywords", raised |-> missing # <<>>, missing |-> missing]

\* the keywords RuleEngine.__init__ requires
EngineKeywords ==
    << <<"power", "supply">>, <<"audio", "controller">>, <<"amplifier">>,
       <<"display">>, <<"annunciator">> >>

----------------------------------------------------------------------------
(* BOQ partitioner *)

BoqFields ==
    {"smoke_detector", "heat_detector", "duct_detector", "beam_detector",
     "manual_station", "horn_strobe", "strobe_only", "horn_only",
     "addressable_horn_strobe", "addressable_strobe", "speaker", "speaker_strobe",
     "monitor_module", "control_relay", "fire_phone_jack", "remote_annunciator"}

\* DeviceBOQ()
ZeroBoq == [f \in BoqFields |-> 0]

\* the per-panel count rounded down instead of up
PanelBoqFloor(total, n) ==
    [f \in BoqFields |-> IF f = "remote_annunciator" THEN 0 ELSE total[f] \div n]

\* one DeviceBOQ of MultiPanelBOQHandler._divide_equal
PanelBoq(total, n) ==
    [f \in BoqFields |-> IF f = "remote_annunciator" THEN 0 ELSE CeilDiv(total[f], n)]

\* MultiPanelBOQHandler._divide_equal
divide_equal(total, n) == [panel_idx \in 1..n |-> PanelBoq(total, n)]

\* MultiPanelBOQHandler._divide_balanced
divide_balanced(total, n) == divide_equal(total, n)

----------------------------------------------------------------------------
(* Inputs of the model *)

MaxLoopK == 1

MaxControlRelays == 1

MaxPanels == 3

MaxCount == 3

MaxQuantity == 2

MaxSheetRows == 3

\* ProjectAnswers()
DefaultAnswers ==
    [protocol |-> "idnet2", audio_type |-> "no_audio", speaker_wattage |-> 0,
     dual_amplifier_per_zone |-> FALSE, constant_supervision_speaker |-> FALSE,
     backup_amplifier_one_to_one |-> FALSE, backup_amplifier_one_for_all |-> FALSE,
     use_addressable_nac |-> FALSE, nac_class_a_wiring |-> FALSE,
     has_fire_phone |-> FALSE, speaker_class_a_wiring |-> FALSE,
     has_panel_printer |-> FALSE, has_graphics_command_center |-> FALSE,
     network_type |-> "none", graphics_software_type |-> "none",
     has_smoke_management |-> FALSE, smoke_management_relay_count |-> 0,
     door_holder_voltage |-> "24vdc", monitor_modules_with_leds |-> FALSE,
     fire_damper_feedback |-> FALSE, fire_damper_led_indication |-> FALSE,
     audio_control_led_switches |-> FALSE,
     has_voice_evacuation |-> FALSE, has_speakers |-> FALSE, has_horns |-> FALSE,
     speakers_with_visual |-> FALSE, display_type |-> "2x40_lcd",
     fire_phone_jack_count |-> 0, annunciator_type |-> "none",
     remote_annunciator_with_audio_control |-> FALSE]

\* the answers of the calls: the defaults with the damper, door-holder and
\* LED questions answered either way
AnswersSet ==
    {[DefaultAnswers EXCEPT !.fire_damper_feedback = damper,
                            !.door_holder_voltage = door,
                            !.audio_control_led_switches = leds] :
        damper \in BOOLEAN, door \in {"24vdc", "220vac"}, leds \in BOOLEAN}

\* device counts around the 500-device steps of the loop scaling
LoopLevels ==
    {0} \cup {LoopDevicesPerIdnetModule * k + r : k \in 0..MaxLoopK, r \in {0, 1}}

BoqSet ==
    {[ZeroBoq EXCEPT !.smoke_detector = smoke, !.control_relay = relays] :
        smoke \in LoopLevels, relays \in 0..MaxControlRelays}

Row(model_number, spec_categories, physical_size, mounted_on) ==
    [model_number |-> model_number, spec_categories |-> spec_categories,
     physical_size |-> physical_size, mounted_on |-> mounted_on]

\* the rows a module workbook of the model is made of
RowPool ==
    << Row("4100-9701", <<"Master Controller">>, <<Num(<<2>>), Word("blocks")>>, "internal"),
       Row("4100-3109", <<"IDNet Modules">>, <<Word("block"), Letters(<<"A", "B">>)>>,
           "Internal"),
       Row("4100-0620", <<"IDNet Modules", "", "Relay Modules">>, <<>>, ""),
       Row("4100-9401", <<"Cabinet Assemblies">>, <<Num(<<8>>), Word("blocks")>>, "internal"),
       Row("4100-1288", <<"LED-Switch (4100-0032)">>, <<Word("slot"), Num(<<1, 2>>)>>, "DOOR"),
       Row("4100-0620", <<"Relay modules", "Power Supplies">>, <<Num(<<1>>), Word("block")>>,
           "internal") >>

RECURSIVE SubSeqOf(_, _, _)
\* the rows of pool at the positions in keep, in pool order
SubSeqOf(pool, keep, i) ==
    IF i > Len(pool) THEN <<>>
    ELSE (IF i \in keep THEN <<pool[i]>> ELSE <<>>) \o SubSeqOf(pool, keep, i + 1)

Workbooks == {SubSeqOf(RowPool, keep, 1) : keep \in SUBSET (DOMAIN RowPool)}

\* the workbooks of the engines that have the solver: the rows of the loop
\* cards and of the cabinet
SolverWorkbooks == {SubSeqOf(RowPool, keep, 1) : keep \in SUBSET {2, 3, 4}}

\* the optional import: None, or the module with the str() of its constant
\* OPTIMAL (the integer 4 of the protobuf enum, or the name of the enum
\* member in the builds that wrap it)
CpModels ==
    {[loaded |-> FALSE, OPTIMAL |-> ""],
     [loaded |-> TRUE, OPTIMAL |-> "4"],
     [loaded |-> TRUE, OPTIMAL |-> "CpSolverStatus.OPTIMAL"]}

\* a placement sheet that holds all five keywords
StandardSheet ==
    << << <<"Panel">>, <<>> >>,
       << <<>>, <<"Power", "Supply", "audio", "controller", "amplifier">> >>,
       << <<>>, <<"Display", "annunciator">> >> >>

NoCall == [op |-> "none"]

NoResult == [op |-> "none"]

\* RuleRepository.__init__ on a pricing document, a module workbook and a
\* placement sheet
RepositoryInit(pricing, workbook, sheet) ==
    LET prices == LoadPricingOverrides(pricing)
        mods == LoadModules(workbook, prices.module_prices, prices.category_prices)
    IN  /\ module_prices = prices.module_prices
        /\ category_prices = prices.category_prices
        /\ modules = mods
        /\ module_index = BuildModuleIndex(mods)
        /\ category_to_modules = BuildCategoryIndex(EmptyDict, mods)
        /\ placement_rules = LoadPlacementRules(sheet)

NoHandler ==
    /\ total_boq = ZeroBoq
    /\ num_panels = 1
    /\ panel_boqs = <<>>
    /\ panel_configurations = <<>>
    /\ self_answers = DefaultAnswers

----------------------------------------------------------------------------
(* The rule engine: one engine, a catalog and calls of optimise_panel *)

Init ==
    /\ cp_model \in CpModels
    /\ \E workbook \in (IF cp_model.loaded THEN SolverWorkbooks ELSE Workbooks) :
            RepositoryInit(NoPricing, workbook, StandardSheet)
    /\ engine = "constructed"
    /\ pc = "idle"
    /\ call = NoCall
    /\ result = NoResult
    /\ NoHandler

\* optimise_panel keeping the prices it estimated in the price table
OptimisePanelCachingPrices ==
    /\ pc = "idle"
    /\ engine = "constructed"
    /\ \E answers \in AnswersSet, boq \in BoqSet :
        \E solver_result \in
                OptimizerResults(
                    derive_category_requirements(build_requirements(answers, boq))) :
            /\ call' = [op |-> "optimise_panel", answers |-> answers, boq |-> boq]
            /\ result' = optimise_panel(answers, boq, solver_result)
    /\ module_prices' =
            [m \in DOMAIN module_prices \cup DOMAIN result'.module_selection |->
                estimate_cost(m, 1)]
    /\ pc' = "returned"
    /\ UNCHANGED <<cp_model, category_prices, modules, module_index,
                   category_to_modules, placement_rules, engine, handlerVars>>

\* a call of optimise_panel(answers, boq) and its return
OptimisePanel ==
    /\ pc = "idle"
    /\ engine = "constructed"
    /\ \E answers \in AnswersSet, boq \in BoqSet :
        \E solver_result \in
                OptimizerResults(
                    derive_category_requirements(build_requirements(answers, boq))) :
            /\ call' = [op |-> "optimise_panel", answers |-> answers, boq |-> boq]
            /\ result' = optimise_panel(answers, boq, solver_result)
    /\ pc' = "returned"
    /\ UNCHANGED <<cp_model, repoVars, engine, handlerVars>>

\* the caller takes the returned value
Collect ==
    /\ pc = "returned"
    /\ pc' = "idle"
    /\ call' = NoCall
    /\ result' = NoResult
    /\ UNCHANGED <<cp_model, repoVars, engine, handlerVars>>

Next == OptimisePanel \/ Collect

Spec == Init /\ [][Next]_vars

----------------------------------------------------------------------------
(* Properties of optimise_panel *)

\* a call of optimise_panel has returned
Returned == pc = "returned" /\ call.op = "optimise_panel"

\* the summed quantity of the selected modules that list the category
CategoryCover(module_selection, category) ==
    LET listing == {m \in DOMAIN module_selection :
                        /\ get_module(m) # None
                        /\ category \in Range(get_module(m).specification_categories)}
    IN  SetSum([m \in listing |-> module_selection[m]], listing)

\* C1: on the greedy path (no solver) the returned selection covers every
\* category of the returned demand: the quantities of the selected modules
\* that list the category sum to at least the demanded quantity
GreedyCoversDemand ==
    (Returned /\ ~cp_model.loaded) =>
        \A i \in DOMAIN result.category_requirements :
            CategoryCover(result.module_selection, result.category_requirements[i].category)
                >= result.category_requirements[i].quantity

\* the models every specific-module plan holds
CorePlanModels ==
    {MODULE_ALIASES.MASTER_CONTROLLER, MODULE_ALIASES.POWER_SUPPLY_MAIN,
     MODULE_ALIASES.IDNET_DUAL_LOOP}

\* C2: every returned selection is non-empty and holds the master controller
\* 4100-9701, the main power supply 4100-5311 and the dual-loop card
\* 4100-3109 with a quantity of at least 1, whatever the optimizer answered
SelectionHoldsCorePlan ==
    Returned =>
        /\ DOMAIN result.module_selection # {}
        /\ \A m \in CorePlanModels :
                m \in DOMAIN result.module_selection /\ result.module_selection[m] >= 1

\* the solver answered INFEASIBLE with an empty map and the call returned a
\* selection that holds the three plan models
InfeasibleStillPlanned ==
    /\ Returned
    /\ result.solver_status = "INFEASIBLE+PLAN"
    /\ result.optimizer = EmptyDict
    /\ CorePlanModels \subseteq DOMAIN result.module_selection

\* C3: the returned quantity of every model is at least the optimizer's and
\* at least the plan's, and the enclosure addition lowers no quantity: the
\* returned quantity is the larger of the two plus a non-negative addition
MergeMonotone ==
    Returned =>
        \A m \in (DOMAIN result.optimizer) \cup (DOMAIN result.manual_plan)
                    \cup (DOMAIN result.enclosure_plan) :
            /\ m \in DOMAIN result.module_selection
            /\ result.module_selection[m] >= Get(result.optimizer, m, 0)
            /\ result.module_selection[m] >= Get(result.manual_plan, m, 0)
            /\ Get(result.enclosure_plan, m, 0) >= 0
            /\ result.module_selection[m] =
                    Max(Get(result.optimizer, m, 0), Get(result.manual_plan, m, 0))
                        + Get(result.enclosure_plan, m, 0)

\* the optimizer and the plan both gave a model, and the optimizer gave a
\* cabinet that the enclosure plan adds to
MergeKeepsLargerAndAdds ==
    /\ Returned
    /\ \E m \in DOMAIN result.manual_plan : Get(result.optimizer, m, 0) > 0
    /\ \E m \in DOMAIN result.enclosure_plan :
            /\ Get(result.optimizer, m, 0) > 0
            /\ result.module_selection[m] > result.optimizer[m]

\* C4: a returned result with a non-empty selection recommends at least one
\* bay, also when no selected module has a footprint
RecommendedBaysFloor ==
    (Returned /\ DOMAIN result.module_selection # {}) =>
        result.bay_allocation.recommended_bays >= 1

\* the bays the selected SKUs of a size-to-model map supply
SuppliedBays(module_selection, size_to_model) ==
    SetSum([size \in DOMAIN size_to_model |->
                size * Get(module_selection, size_to_model[size], 0)],
           DOMAIN size_to_model)

\* C5: the cabinets of a returned selection supply at least the reported
\* recommended bays, and so do its glass doors when the reported door slots
\* are more than 0
EnclosuresSupplyBays ==
    Returned =>
        /\ SuppliedBays(result.module_selection, CABINET_SIZE_TO_MODEL)
                >= result.bay_allocation.recommended_bays
        /\ result.space_usage.door_slots > 0 =>
                SuppliedBays(result.module_selection, GLASS_DOOR_SIZE_TO_MODEL)
                    >= result.bay_allocation.recommended_bays

\* C7: every key of a returned selection is a model of the catalog
KeysResolve ==
    Returned => \A m \in DOMAIN result.module_selection : get_module(m) # None

\* C8: the status of a returned result is one of the four names with +PLAN
StatusIsNamed ==
    Returned =>
        result.solver_status \in
            {"OPTIMAL+PLAN", "FEASIBLE+PLAN", "INFEASIBLE+PLAN", "GREEDY+PLAN"}

\* C27: every step of a run of optimise_panel calls leaves the catalog as it
\* was (module list, model and category indices, price tables, placement
\* rules), and on the greedy path the value a call returns is the value of
\* optimise_panel for its answers and BOQ on the catalog as it was before the
\* call, which is the catalog of the engine's construction whatever calls
\* came before
CallsLeaveCatalogUnchanged ==
    [][/\ repoVars' = repoVars
       /\ (pc' = "returned" /\ ~cp_model.loaded) =>
            result' = optimise_panel(
                        call'.answers, call'.boq,
                        build_greedy_selection(
                            derive_category_requirements(
                                build_requirements(call'.answers, call'.boq))))]_vars

\* a greedy call has returned a non-empty selection from a non-empty catalog
GreedyCallOnCatalog ==
    /\ Returned
    /\ ~cp_model.loaded
    /\ modules # <<>>
    /\ DOMAIN result.module_selection # {}

\* the selections the integer programme ranges over for a demand: a quantity
\* for every module of a demanded category (no cheapest covering selection
\* holds more than the largest demand of any module)
SolverCandidates(cr) == [DemandedModels(cr) -> 0..Min(SolverVarMax, MaxDemand(cr))]

\* C11: on the greedy path, whenever some selection covers the returned
\* demand, the weighted cost of the greedy selection is at least the
\* minimum weighted cost of the covering selections: some covering selection
\* costs no more than the greedy one
GreedyBoundsOptimum ==
    (Returned /\ ~cp_model.loaded) =>
        LET cr == result.category_requirements
            covering == {a \in SolverCandidates(cr) : Covers(a, cr)}
        IN  covering # {} =>
                \E a \in covering : Objective(a) <= Objective(result.optimizer)

\* C15: in the greedy selection, for every demanded category that has a
\* module, the module that is minimal under the sort key is selected with
\* a quantity of at least the demand of the category
GreedyMinimalHoldsDemand ==
    (Returned /\ ~cp_model.loaded) =>
        \A i \in DOMAIN result.category_requirements :
            LET mods == Get(category_to_modules,
                            result.category_requirements[i].category, <<>>)
            IN  \A m \in Range(mods) :
                    (\A other \in Range(mods) : GreedyKeyLeq(m, other)) =>
                        Get(result.optimizer, m.model_number, 0)
                            >= result.category_requirements[i].quantity

----------------------------------------------------------------------------
(* The BOQ partitioner: one MultiPanelBOQHandler and calls of divide_boq *)

\* no repository or engine is part of the run
NoRepository ==
    /\ cp_model = [loaded |-> FALSE, OPTIMAL |-> ""]
    /\ module_prices = EmptyDict
    /\ category_prices = EmptyDict
    /\ modules = <<>>
    /\ module_index = EmptyDict
    /\ category_to_modules = EmptyDict
    /\ placement_rules = <<>>
    /\ engine = "none"

\* total BOQs with a detector count, a phone-jack count and an annunciator
\* count
TotalBoqs ==
    {[ZeroBoq EXCEPT !.smoke_detector = smoke, !.fire_phone_jack = jacks,
                     !.remote_annunciator = annunciators] :
        smoke \in 0..MaxCount, jacks \in 0..MaxCount, annunciators \in 0..MaxCount}

Strategies == {"equal", "balanced", "custom"}

\* MultiPanelBOQHandler(total_boq, num_panels)
InitPartition ==
    /\ NoRepository
    /\ total_boq \in TotalBoqs
    /\ num_panels \in 1..MaxPanels
    /\ panel_boqs = <<>>
    /\ panel_configurations = <<>>
    /\ self_answers = DefaultAnswers
    /\ pc = "idle"
    /\ call = NoCall
    /\ result = NoResult

\* MultiPanelBOQHandler.divide_boq(strategy)
DivideBoq ==
    /\ pc = "idle"
    /\ \E strategy \in Strategies :
        /\ call' = [op |-> "divide_boq", strategy |-> strategy]
        /\ IF strategy = "equal"
           THEN /\ panel_boqs' = divide_equal(total_boq, num_panels)
                /\ result' = [op |-> "divide_boq", raised |-> FALSE, value |-> panel_boqs']
           ELSE IF strategy = "balanced"
           THEN /\ panel_boqs' = divide_balanced(total_boq, num_panels)
                /\ result' = [op |-> "divide_boq", raised |-> FALSE, value |-> panel_boqs']
           ELSE /\ panel_boqs' = panel_boqs
                /\ result' = [op |-> "divide_boq", raised |-> TRUE, value |-> <<>>]
    /\ pc' = "returned"
    /\ UNCHANGED <<cp_model, repoVars, engine, total_boq, num_panels,
                   panel_configurations, self_answers>>

NextPartition == DivideBoq \/ Collect

SpecPartition == InitPartition /\ [][NextPartition]_vars

\* divide_boq has returned a list
Divided == pc = "returned" /\ call.op = "divide_boq" /\ ~result.raised

\* the sum of a field over the per-panel BOQs
PanelSum(boqs, field) == SeqSum([i \in DOMAIN boqs |-> boqs[i][field]])

\* C6 as stated: the per-panel BOQs of divide_boq sum, in every count field
\* (fire_phone_jack and remote_annunciator too), to at least the total
PartitionCoversEveryField ==
    Divided =>
        /\ Len(result.value) = num_panels
        /\ \A field \in BoqFields : PanelSum(result.value, field) >= total_boq[field]

\* C6 as amended: the per-panel BOQs sum to at least the total in every
\* count field other than remote_annunciator, which is 0 in every per-panel
\* BOQ
PartitionCoversDeviceFields ==
    Divided =>
        /\ Len(result.value) = num_panels
        /\ result.value = panel_boqs
        /\ \A field \in BoqFields \ {"remote_annunciator"} :
                PanelSum(result.value, field) >= total_boq[field]
        /\ \A i \in DOMAIN result.value : result.value[i].remote_annunciator = 0

\* several panels, a count they do not divide, and annunciators in the total
UnevenPartition ==
    /\ Divided
    /\ num_panels > 1
    /\ total_boq.smoke_detector % num_panels # 0
    /\ PanelSum(result.value, "smoke_detector") > total_boq.smoke_detector
    /\ total_boq.fire_phone_jack > 0
    /\ total_boq.remote_annunciator > 0

----------------------------------------------------------------------------
(* The keyword check: a repository on a placement sheet, the construction *)
(* of the engine on it and calls of ensure_rule_keywords                  *)

\* the cells of the placement sheets
CellPool ==
    { <<"Panel">>,
      <<"main", "Power">>,
      <<"Supply", "audio", "controller", "amplifier", "Display", "annunciator">>,
      <<"Power", "Supply", "units">> }

\* a row of two columns with one cell filled
SheetRows == {<<cell, <<>>>> : cell \in CellPool} \cup {<<<<>>, cell>> : cell \in CellPool}

RECURSIVE SheetsOfLength(_)
SheetsOfLength(n) ==
    IF n = 0 THEN {<<>>}
    ELSE {Append(sheet, row) : sheet \in SheetsOfLength(n - 1), row \in SheetRows}

PlacementSheets == UNION {SheetsOfLength(n) : n \in 0..MaxSheetRows}

\* the keyword lists of the calls
KeywordLists ==
    { EngineKeywords,
      << <<"power", "supply">> >>,
      << <<"Display">>, <<"units">>, <<"amplifier">> >>,
      <<>> }

\* RuleRepository(module_workbook, placement_workbook)
InitRules ==
    /\ cp_model = [loaded |-> FALSE, OPTIMAL |-> ""]
    /\ \E sheet \in PlacementSheets : RepositoryInit(NoPricing, <<>>, sheet)
    /\ engine = "none"
    /\ pc = "idle"
    /\ call = NoCall
    /\ result = NoResult
    /\ NoHandler

\* RuleRepository.ensure_rule_keywords(required_keywords)
EnsureRuleKeywords ==
    /\ pc = "idle"
    /\ \E required_keywords \in KeywordLists :
        /\ call' = [op |-> "ensure_rule_keywords", required_keywords |-> required_keywords]
        /\ result' = ensure_rule_keywords(required_keywords)
    /\ pc' = "returned"
    /\ UNCHANGED <<cp_model, repoVars, engine, handlerVars>>

\* RuleEngine.__init__ after the repository is built: the keyword check
EngineInit ==
    /\ pc = "idle"
    /\ engine = "none"
    /\ call' = [op |-> "RuleEngine", required_keywords |-> EngineKeywords]
    /\ result' = ensure_rule_keywords(EngineKeywords)
    /\ engine' = IF result'.raised THEN "failed" ELSE "constructed"
    /\ pc' = "returned"
    /\ UNCHANGED <<cp_model, repoVars, handlerVars>>

\* RuleRepository._load_placement_rules on the sheet of the placement
\* workbook, as __init__ calls it: on the empty rule list
LoadPlacementRulesCall ==
    /\ pc = "idle"
    /\ placement_rules = <<>>
    /\ \E sheet \in PlacementSheets :
        /\ call' = [op |-> "load_placement_rules", sheet |-> sheet]
        /\ placement_rules' = placement_rules \o LoadPlacementRules(sheet)
    /\ result' = NoResult
    /\ pc' = "returned"
    /\ UNCHANGED <<cp_model, module_prices, category_prices, modules, module_index,
                   category_to_modules, engine, handlerVars>>

NextRules == EnsureRuleKeywords \/ EngineInit \/ LoadPlacementRulesCall \/ Collect

SpecRules == InitRules /\ [][NextRules]_vars

\* the keyword check has returned or raised
Checked == pc = "returned" /\ call.op \in {"ensure_rule_keywords", "RuleEngine"}

\* needle begins at word offset + 1 of words
OccursAt(words, needle, offset) ==
    /\ offset + Len(needle) <= Len(words)
    /\ \A j \in DOMAIN needle : LowerStr(words[offset + j]) = LowerStr(needle[j])

\* the keywords no single rule text contains, case-insensitively
MissingInEveryRule(required_keywords) ==
    SelectSeq(required_keywords,
              LAMBDA keyword :
                \A i \in DOMAIN placement_rules :
                    \A offset \in 0..Len(placement_rules[i].text) :
                        ~OccursAt(placement_rules[i].text, keyword, offset))

\* the keywords the rule texts, joined by single spaces, do not contain,
\* case-insensitively
MissingInJoinedRules(required_keywords) ==
    SelectSeq(required_keywords,
              LAMBDA keyword :
                \A offset \in 0..Len(FlattenTexts(placement_rules)) :
                    ~OccursAt(FlattenTexts(placement_rules), keyword, offset))

\* C9 as stated: the check fails exactly when some required keyword is in no
\* single rule text, the error names exactly those keywords, and the
\* construction of the engine fails in exactly that case
KeywordsInSingleRules ==
    Checked =>
        /\ result.raised <=> MissingInEveryRule(call.required_keywords) # <<>>
        /\ result.raised => result.missing = MissingInEveryRule(call.required_keywords)
        /\ call.op = "RuleEngine" => (engine = "failed" <=> result.raised)

\* C9 as amended: the check fails exactly when some required keyword is not
\* in the rule texts joined by single spaces (where a keyword may run from
\* the end of one rule text into the next), the error names exactly those
\* keywords, and the construction of the engine fails in exactly that case
KeywordsInJoinedRules ==
    Checked =>
        /\ result.raised <=> MissingInJoinedRules(call.required_keywords) # <<>>
        /\ result.raised => result.missing = MissingInJoinedRules(call.required_keywords)
        /\ call.op = "RuleEngine" => (engine = "failed" <=> result.raised)

\* the engine is constructed on a sheet where "power supply" runs across two
\* rule texts and is in no single one
KeywordAcrossRules ==
    /\ Checked
    /\ call.op = "RuleEngine"
    /\ engine = "constructed"
    /\ MissingInEveryRule(EngineKeywords) = << <<"power", "supply">> >>

----------------------------------------------------------------------------
(* Cost estimation: a repository on a pricing document and a workbook, and *)
(* calls of estimate_cost                                                  *)

\* the pricing documents: none, and three files
PricingDocs ==
    { NoPricing,
      [given |-> TRUE,
       module_overrides |-> [m \in {"4100-9401"} |-> 1100],
       category_defaults |-> EmptyDict],
      [given |-> TRUE,
       module_overrides |-> [m \in {"4100-9401"} |-> 0],
       category_defaults |-> [c \in {"Cabinet Assemblies"} |-> 800]],
      [given |-> TRUE,
       module_overrides |->
            [m \in {"4100-9701", "4100-9999"} |-> IF m = "4100-9701" THEN 4000 ELSE 70],
       category_defaults |-> [c \in {"IDNet Modules"} |-> 900]] }

\* the workbooks of the cost runs: the rows of the master controller, of the
\* relay card and of the one-bay cabinet
CostWorkbooks == {SubSeqOf(RowPool, keep, 1) : keep \in SUBSET {1, 3, 4}}

\* the model numbers asked for: catalog models, a model only the override
\* table knows, and a model nothing knows
CostModels == {"4100-9701", "4100-0620", "4100-9401", "4100-9999", "4100-0000"}

InitCost ==
    /\ cp_model = [loaded |-> FALSE, OPTIMAL |-> ""]
    /\ \E pricing \in PricingDocs, workbook \in CostWorkbooks :
            RepositoryInit(pricing, workbook, StandardSheet)
    /\ engine = "constructed"
    /\ pc = "idle"
    /\ call = NoCall
    /\ result = NoResult
    /\ NoHandler

\* RuleRepository.estimate_cost(model_number, quantity)
EstimateCost ==
    /\ pc = "idle"
    /\ \E model_number \in CostModels, quantity \in 0..MaxQuantity :
        /\ call' = [op |-> "estimate_cost", model_number |-> model_number,
                    quantity |-> quantity]
        /\ result' = [op |-> "estimate_cost", raised |-> FALSE,
                      value |-> estimate_cost(model_number, quantity)]
    /\ pc' = "returned"
    /\ UNCHANGED <<cp_model, repoVars, engine, handlerVars>>

NextCost == EstimateCost \/ Collect

SpecCost == InitCost /\ [][NextCost]_vars

\* C10: estimate_cost does not raise; a model of the override table costs
\* its override times the quantity; without an override, a catalog module
\* whose first category has a default price costs that default times the
\* quantity; a model in neither the catalog nor the override table costs the
\* guardrail 1000 times the quantity
CostFollowsOverrideOrder ==
    (pc = "returned" /\ call.op = "estimate_cost") =>
        LET model_number == call.model_number
            module == get_module(model_number)
        IN  /\ ~result.raised
            /\ model_number \in DOMAIN module_prices =>
                    result.value = module_prices[model_number] * call.quantity
            /\ (/\ model_number \notin DOMAIN module_prices
                /\ module # None
                /\ module.specification_categories # <<>>
                /\ module.specification_categories[1] \in DOMAIN category_prices) =>
                    result.value =
                        category_prices[module.specification_categories[1]] * call.quantity
            /\ (model_number \notin DOMAIN module_prices /\ module = None) =>
                    result.value = GuardrailCost * call.quantity

----------------------------------------------------------------------------
(* The specific-module plan: build_requirements and _derive_specific_modules
   as optimise_panel calls them, on answers and BOQs that exercise the
   amplifier, relay and loop rules *)

MaxWattSteps == 2

MaxPlanLoopK == 4

MaxRelayK == 1

\* the answers of the audio questions: audio type, wattage and the three
\* amplifier flags
AudioAnswers ==
    {[DefaultAnswers EXCEPT !.audio_type = audio,
                            !.speaker_wattage = 125 * k,
                            !.dual_amplifier_per_zone = dual,
                            !.backup_amplifier_one_to_one = one_to_one,
                            !.backup_amplifier_one_for_all = one_for_all] :
        audio \in {"no_audio", "basic_audio", "voice_evacuation"},
        k \in 0..MaxWattSteps,
        dual \in BOOLEAN, one_to_one \in BOOLEAN, one_for_all \in BOOLEAN}

\* the answers of the damper, door-holder and smoke-management questions
DamperAnswers ==
    {[DefaultAnswers EXCEPT !.fire_damper_feedback = feedback,
                            !.fire_damper_led_indication = indication,
                            !.door_holder_voltage = door,
                            !.smoke_management_relay_count = relays] :
        feedback \in BOOLEAN, indication \in BOOLEAN,
        door \in {"24vdc", "220vac"}, relays \in {0, 8}}

\* the answers of the command-centre, graphics-software and network questions
NetworkAnswers ==
    {[DefaultAnswers EXCEPT !.has_graphics_command_center = centre,
                            !.graphics_software_type = graphics,
                            !.network_type = network] :
        centre \in BOOLEAN, graphics \in {"none", "view_only", "full_control"},
        network \in {"none", "ethernet", "smfo", "mmfo"}}

PlanAnswers == AudioAnswers \cup DamperAnswers \cup NetworkAnswers

\* BOQs around the 500-device steps of the loop scaling, with control
\* relays around the 8-relay step of the zone-relay card and with speakers
PlanBoqs ==
    {[ZeroBoq EXCEPT !.smoke_detector = 500 * k + r,
                     !.monitor_module = monitors,
                     !.control_relay = 8 * j + q,
                     !.speaker = speakers] :
        k \in 0..MaxPlanLoopK, r \in {0, 1}, monitors \in {0, 499},
        j \in 0..MaxRelayK, q \in {0, 1}, speakers \in {0, 10}}

InitPlan ==
    /\ cp_model = [loaded |-> FALSE, OPTIMAL |-> ""]
    /\ RepositoryInit(NoPricing, <<>>, StandardSheet)
    /\ engine = "constructed"
    /\ pc = "idle"
    /\ call = NoCall
    /\ result = NoResult
    /\ NoHandler

\* requirements = self.build_requirements(answers, boq)
BuildRequirements ==
    /\ pc = "idle"
    /\ engine = "constructed"
    /\ \E answers \in PlanAnswers, boq \in PlanBoqs :
        /\ call' = [op |-> "build_requirements", answers |-> answers, boq |-> boq]
        /\ result' = [requirements |-> build_requirements(answers, boq)]
    /\ pc' = "requirements"
    /\ UNCHANGED <<cp_model, repoVars, engine, handlerVars>>

\* manual_plan = self._derive_specific_modules(requirements)
DeriveSpecificModules ==
    /\ pc = "requirements"
    /\ call' = [call EXCEPT !.op = "derive_specific_modules"]
    /\ result' = [requirements |-> result.requirements,
                  plan |-> derive_specific_modules(result.requirements)]
    /\ pc' = "returned"
    /\ UNCHANGED <<cp_model, repoVars, engine, handlerVars>>

\* the PanelRequirements records handed to derive_category_requirements:
\* the record of the default answers and an empty BOQ with the relay, smoke
\* management, door-holder, audio, fire-phone and LED fields set
RequirementsRecords ==
    {[build_requirements(DefaultAnswers, ZeroBoq) EXCEPT
            !.has_smoke_management = smoke,
            !.relay_count = relays,
            !.has_door_holder_220vac = door,
            !.voice_evacuation = voice,
            !.has_fire_phone = phone,
            !.requires_led_packages = leds] :
        smoke \in BOOLEAN, relays \in 0..(3 * MaxRelayK + 4), door \in BOOLEAN,
        voice \in BOOLEAN, phone \in BOOLEAN, leds \in BOOLEAN}

\* RuleEngine.derive_category_requirements(requirements)
DeriveCategoryRequirements ==
    /\ pc = "idle"
    /\ engine = "constructed"
    /\ \E requirements \in RequirementsRecords :
        /\ call' = [op |-> "derive_category_requirements", requirements |-> requirements]
        /\ result' = [category_requirements |-> derive_category_requirements(requirements)]
    /\ pc' = "returned"
    /\ UNCHANGED <<cp_model, repoVars, engine, handlerVars>>

NextPlan ==
    BuildRequirements \/ DeriveSpecificModules \/ DeriveCategoryRequirements \/ Collect

SpecPlan == InitPlan /\ [][NextPlan]_vars

\* the plan of a call has been derived
Planned == pc = "returned" /\ call.op = "derive_specific_modules"

\* n is max(1, ceil(total / per)): the least n >= 1 with per * n >= total
IsLeastCover(n, total, per) ==
    n >= 1 /\ per * n >= total /\ (n > 1 => per * (n - 1) < total)

\* C12: with voice evacuation, whenever dual-amplifier-per-zone or 1-to-1
\* backup is set (one or both), the plan holds exactly
\* 2 * max(1, ceil(W / 100)) amplifiers 4100-1248
AmplifiersDoubledOnce ==
    (/\ Planned
     /\ call.answers.audio_type # "no_audio"
     /\ call.answers.dual_amplifier_per_zone
            \/ call.answers.backup_amplifier_one_to_one) =>
        LET amplifiers == Get(result.plan, "4100-1248", 0)
        IN  /\ amplifiers = 2 * (amplifiers \div 2)
            /\ IsLeastCover(amplifiers \div 2, result.requirements.speaker_wattage, 100)

\* both flags set at 250 W: 6 amplifiers
BothFlagsAt250W ==
    /\ Planned
    /\ call.answers.audio_type = "voice_evacuation"
    /\ call.answers.dual_amplifier_per_zone
    /\ call.answers.backup_amplifier_one_to_one
    /\ result.requirements.speaker_wattage = 250
    /\ result.plan["4100-1248"] = 6

\* the answers ask for fire-damper relays and a 220 VAC door holder
DamperAndDoorHolder ==
    /\ Planned
    /\ call.answers.fire_damper_feedback \/ call.answers.fire_damper_led_indication
    /\ call.answers.door_holder_voltage = "220vac"

\* C13: with fire-damper feedback or fire-damper LED indication and a
\* 220 VAC door holder, the relay count is at least 9 and the plan holds the
\* zone-relay card 4100-5013 with a quantity of at least 2 and not the
\* generic relay card 4100-6033
DamperRelaysAreZoneRelays ==
    DamperAndDoorHolder =>
        /\ result.requirements.relay_count >= 9
        /\ Get(result.plan, "4100-5013", 0) >= 2
        /\ "4100-6033" \notin DOMAIN result.plan

\* LED indication alone with a 220 VAC door holder and no relay in the BOQ:
\* 9 relays on 2 zone-relay cards
IndicationOnlyNineRelays ==
    /\ DamperAndDoorHolder
    /\ ~call.answers.fire_damper_feedback
    /\ call.boq.control_relay = 0
    /\ call.answers.smoke_management_relay_count = 0
    /\ result.requirements.relay_count = 9
    /\ result.plan["4100-5013"] = 2

\* the loop devices of a BOQ
LoopDevices(boq) ==
    boq.smoke_detector + boq.heat_detector + boq.duct_detector + boq.beam_detector
    + boq.manual_station + boq.monitor_module + boq.control_relay

\* C14: idnet_modules_required is max(1, ceil(loop_devices / 500)),
\* slc_loops_required is twice that, and the plan holds that many dual-loop
\* cards 4100-3109 and exactly one expansion supply 4100-5325 less (none
\* when one card is required)
LoopScaling ==
    Planned =>
        LET idnet == result.requirements.idnet_modules_required
        IN  /\ IsLeastCover(idnet, LoopDevices(call.boq), 500)
            /\ result.requirements.slc_loops_required = 2 * idnet
            /\ Get(result.plan, "4100-3109", 0) = idnet
            /\ idnet = 1 => "4100-5325" \notin DOMAIN result.plan
            /\ idnet > 1 =>
                    /\ "4100-5325" \in DOMAIN result.plan
                    /\ result.plan["4100-5325"] = idnet - 1

\* 2000 loop devices over several BOQ fields: 4 cards, 8 loops, 3 expansion
\* supplies
TwoThousandLoopDevices ==
    /\ Planned
    /\ LoopDevices(call.boq) = 2000
    /\ call.boq.smoke_detector < 2000
    /\ result.requirements.idnet_modules_required = 4
    /\ result.requirements.slc_loops_required = 8
    /\ result.plan["4100-3109"] = 4
    /\ result.plan["4100-5325"] = 3

\* C16: with voice evacuation, the plan of answers with 1-for-all backup
\* set holds one amplifier 4100-1248 more than the plan of the same answers
\* with the flag cleared, whatever the other flags and the wattage
BackupOneForAllAddsOne ==
    (/\ Planned
     /\ call.answers.audio_type # "no_audio"
     /\ call.answers.backup_amplifier_one_for_all) =>
        LET cleared == [call.answers EXCEPT !.backup_amplifier_one_for_all = FALSE]
            plan_cleared == derive_specific_modules(build_requirements(cleared, call.boq))
        IN  Get(result.plan, "4100-1248", 0) = Get(plan_cleared, "4100-1248", 0) + 1

----------------------------------------------------------------------------
(* The enclosure planner: _allocate_enclosure_sizes and
   _derive_enclosure_modules on selections of catalog modules *)

MaxBays == 7

MaxUnits == 4

\* the workbooks of the enclosure runs: the rows of the master controller,
\* of the one-bay cabinet and of the LED controller on the door
EnclosureWorkbooks == {SubSeqOf(RowPool, keep, 1) : keep \in SUBSET {1, 4, 5}}

\* the selections handed to the enclosure planner
EnclosureSelections ==
    UNION {[models -> 0..MaxUnits] : models \in SUBSET {"4100-9701", "4100-9401", "4100-1288"}}

\* the size-to-model maps of the calls, and an empty one
SizeMaps ==
    {CABINET_SIZE_TO_MODEL, SOLID_DOOR_SIZE_TO_MODEL, GLASS_DOOR_SIZE_TO_MODEL, EmptyDict}

InitEnclosure ==
    /\ cp_model = [loaded |-> FALSE, OPTIMAL |-> ""]
    /\ \E workbook \in EnclosureWorkbooks :
            RepositoryInit(NoPricing, workbook, StandardSheet)
    /\ engine = "constructed"
    /\ pc = "idle"
    /\ call = NoCall
    /\ result = NoResult
    /\ NoHandler

\* _allocate_enclosure_sizes(required_bays, size_to_model)
AllocateEnclosureSizes ==
    /\ pc = "idle"
    /\ \E required_bays \in (-1)..MaxBays, size_to_model \in SizeMaps :
        /\ call' = [op |-> "allocate_enclosure_sizes", required_bays |-> required_bays,
                    size_to_model |-> size_to_model]
        /\ result' = [plan |-> allocate_enclosure_sizes(required_bays, size_to_model)]
    /\ pc' = "returned"
    /\ UNCHANGED <<cp_model, repoVars, engine, handlerVars>>

\* RuleEngine._derive_enclosure_modules(module_selection)
DeriveEnclosureModules ==
    /\ pc = "idle"
    /\ engine = "constructed"
    /\ \E module_selection \in EnclosureSelections :
        /\ call' = [op |-> "derive_enclosure_modules", module_selection |-> module_selection]
        /\ result' = [plan |-> derive_enclosure_modules(module_selection)]
    /\ pc' = "returned"
    /\ UNCHANGED <<cp_model, repoVars, engine, handlerVars>>

NextEnclosure == AllocateEnclosureSizes \/ DeriveEnclosureModules \/ Collect

SpecEnclosure == InitEnclosure /\ [][NextEnclosure]_vars

\* a call of _allocate_enclosure_sizes over the sizes 3, 2 and 1 has returned
Allocated ==
    /\ pc = "returned"
    /\ call.op = "allocate_enclosure_sizes"
    /\ DOMAIN call.size_to_model = {1, 2, 3}

\* C17: for n >= 1 bays over the sizes 3, 2 and 1 the allocator returns
\* floor(n / 3) three-bay units, one two-bay unit exactly when n mod 3 = 2
\* and one one-bay unit exactly when n mod 3 = 1; the capacity is exactly n
\* and no SKU has quantity 0; for n <= 0 the plan is empty
AllocationIsExact ==
    Allocated =>
        LET n == call.required_bays
            m == call.size_to_model
            plan == result.plan
        IN  IF n <= 0 THEN plan = EmptyDict
            ELSE /\ Get(plan, m[3], 0) = n \div 3
                 /\ Get(plan, m[2], 0) = (IF n % 3 = 2 THEN 1 ELSE 0)
                 /\ Get(plan, m[1], 0) = (IF n % 3 = 1 THEN 1 ELSE 0)
                 /\ DOMAIN plan \subseteq Range(m)
                 /\ \A sku \in DOMAIN plan : plan[sku] > 0
                 /\ SuppliedBays(plan, m) = n

\* five bays: one three-bay and one two-bay cabinet and no one-bay cabinet
FiveBaysAllocated ==
    /\ Allocated
    /\ call.required_bays = 5
    /\ result.plan = [sku \in {CABINET_SIZE_TO_MODEL[3], CABINET_SIZE_TO_MODEL[2]} |-> 1]

\* a call of _derive_enclosure_modules has returned
Enclosed == pc = "returned" /\ call.op = "derive_enclosure_modules"

\* C18: the enclosure plan holds doors of exactly one family, glass
\* (4100-9407/9408/9409) exactly when the selection uses more than 0 door
\* slots and solid (4100-9404/9405/9406) otherwise; for every size the door
\* quantity equals the cabinet quantity; a selection that needs at most one
\* bay and no door slot gets exactly one 4100-9401 and one 4100-9404
DoorsFollowCabinets ==
    Enclosed =>
        LET plan == result.plan
            summary == summarise_space_usage(call.module_selection)
            door_slots == summary.space_usage.door_slots
            glass == (DOMAIN plan) \cap {"4100-9407", "4100-9408", "4100-9409"}
            solid == (DOMAIN plan) \cap {"4100-9404", "4100-9405", "4100-9406"}
            doors == IF door_slots > 0 THEN GLASS_DOOR_SIZE_TO_MODEL
                     ELSE SOLID_DOOR_SIZE_TO_MODEL
        IN  /\ door_slots > 0 => (glass # {} /\ solid = {})
            /\ door_slots <= 0 => (solid # {} /\ glass = {})
            /\ \A size \in {1, 2, 3} :
                    Get(plan, doors[size], 0) = Get(plan, CABINET_SIZE_TO_MODEL[size], 0)
            /\ (summary.bay_allocation.recommended_bays <= 1 /\ door_slots = 0) =>
                    plan = [sku \in {"4100-9401", "4100-9404"} |-> 1]

\* a selection with door slots that needs two bays: a two-bay cabinet with a
\* two-bay glass door
TwoBaysGlassDoor ==
    /\ Enclosed
    /\ summarise_space_usage(call.module_selection).space_usage.door_slots > 0
    /\ result.plan = [sku \in {"4100-9402", "4100-9408"} |-> 1]

----------------------------------------------------------------------------
(* The space calculator: _derive_space_requirements on size texts *)

MaxSizeTokens == 3

\* the tokens the size texts of the runs are made of
SizeTokens ==
    {Num(<<2>>), Num(<<1, 2>>), Word("slot"), Word("slots"), Word("blocks"),
     Letters(<<"A", "B", "C">>), Word("block")}

\* the size texts: up to MaxSizeTokens tokens
SizeTexts == UNION {[1..n -> SizeTokens] : n \in 0..MaxSizeTokens}

\* the mount cells: the three mount kinds in the spellings of the workbook,
\* another word and the empty cell
Mounts == {"internal", "Internal", "door", "DOOR", "both", "rack", ""}

\* a model without override and two models of the override table
SpaceModels == {"4100-9701", "4100-1252", "4100-9620"}

InitSpace ==
    /\ cp_model = [loaded |-> FALSE, OPTIMAL |-> ""]
    /\ RepositoryInit(NoPricing, <<>>, StandardSheet)
    /\ engine = "constructed"
    /\ pc = "idle"
    /\ call = NoCall
    /\ result = NoResult
    /\ NoHandler

\* _derive_space_requirements(model_number, physical_size, mounted_on)
DeriveSpace ==
    /\ pc = "idle"
    /\ \E model_number \in SpaceModels, physical_size \in SizeTexts, mounted_on \in Mounts :
        /\ call' = [op |-> "derive_space_requirements", model_number |-> model_number,
                    physical_size |-> physical_size, mounted_on |-> mounted_on]
        /\ result' = DeriveSpaceRequirements(model_number, physical_size, mounted_on)
    /\ pc' = "returned"
    /\ UNCHANGED <<cp_model, repoVars, engine, handlerVars>>

MaxListLen == 2

\* the lists handed to _merge_unique: category cells in the spellings of
\* the workbook, the empty string included
CategoryLists ==
    UNION {[1..n -> {"Relay Modules", "Relay modules", "IDNet Modules", "IDNET MODULES", ""}] :
            n \in 0..MaxListLen}

\* _merge_unique(values, additions)
MergeUniqueCall ==
    /\ pc = "idle"
    /\ \E values \in CategoryLists, additions \in CategoryLists :
        /\ call' = [op |-> "merge_unique", values |-> values, additions |-> additions]
        /\ result' = [merged |-> MergeUnique(values, additions)]
    /\ pc' = "returned"
    /\ UNCHANGED <<cp_model, repoVars, engine, handlerVars>>

NextSpace == DeriveSpace \/ MergeUniqueCall \/ Collect

SpecSpace == InitSpace /\ [][NextSpace]_vars

\* a call of _derive_space_requirements on a model without override has
\* returned
SpaceDerived ==
    /\ pc = "returned"
    /\ call.op = "derive_space_requirements"
    /\ call.model_number \notin DOMAIN SPACE_OVERRIDES

\* the larger of the two slot counts of a text: N slots and slot NNN
SlotCount(text) ==
    Max(NumericKeywordUsage({"slot", "slots"}, text), InlineSlotUsage(text))

\* the larger of the two block counts of a text: N blocks and block ABC
BlockCount(text) ==
    Max(NumericKeywordUsage({"block", "blocks"}, text), InlineBlockUsage(text))

\* C19: for a model without override and mount door or both, whenever a
\* slot pattern of the size text yields a positive count the door footprint
\* is the larger of the slot counts, whatever block counts the text holds
SlotsAloneSetDoorFootprint ==
    (/\ SpaceDerived
     /\ LowerStr(call.mounted_on) \in {"door", "both"}
     /\ SlotCount(call.physical_size) > 0) =>
        result.door = SlotCount(call.physical_size)

\* base_internal of _derive_space_requirements
BaseInternal(text) == Max(BlockCount(text), SlotCount(text))

\* base_door of _derive_space_requirements
BaseDoor(text) ==
    Max(SlotCount(text),
        Max(IF NumericKeywordUsage({"slot", "slots"}, text) = 0
            THEN NumericKeywordUsage({"block", "blocks"}, text) ELSE 0,
            IF InlineSlotUsage(text) = 0 THEN InlineBlockUsage(text) ELSE 0))

\* C20: without override, mount internal gives door 0 and internal
\* base_internal, or 1 when that is 0; mount door gives internal 0 and door
\* base_door, or 1 when that is 0; mount both gives both at least 1; any
\* other mount gives (0, 0) whatever the text; a model of the override
\* table gets its override pair whatever text and mount
MountRules ==
    (pc = "returned" /\ call.op = "derive_space_requirements") =>
        LET mount == LowerStr(call.mounted_on)
            text == call.physical_size
        IN  IF call.model_number = "4100-1252" THEN result = [internal |-> 1, door |-> 1]
            ELSE IF call.model_number = "4100-9620"
            THEN result = [internal |-> 8, door |-> 1]
            ELSE CASE mount = "internal" ->
                        /\ result.door = 0
                        /\ result.internal =
                            (IF BaseInternal(text) = 0 THEN 1 ELSE BaseInternal(text))
                   [] mount = "door" ->
                        /\ result.internal = 0
                        /\ result.door = (IF BaseDoor(text) = 0 THEN 1 ELSE BaseDoor(text))
                   [] mount = "both" -> result.internal >= 1 /\ result.door >= 1
                   [] OTHER -> result = [internal |-> 0, door |-> 0]

\* a mount that is none of the three kinds with a text that holds a block
\* count: no footprint
OtherMountIgnoresText ==
    /\ SpaceDerived
    /\ call.mounted_on = "rack"
    /\ BlockCount(call.physical_size) > 0
    /\ result = [internal |-> 0, door |-> 0]

----------------------------------------------------------------------------
(* Properties of the network and relay rules *)

\* C21: requires_network_cards holds exactly when there is a graphics
\* command centre, or the graphics software is view_only or full_control,
\* or the network type is not none; network_links is 0 exactly when it does
\* not hold, 2 exactly when the network is smfo or mmfo or the graphics
\* software is full_control, and 1 otherwise; the plan holds the network
\* interface 4100-6080 exactly when it holds, with quantity network_links
NetworkCardsFollowAnswers ==
    Planned =>
        LET a == call.answers
            r == result.requirements
            needs == \/ a.has_graphics_command_center
                     \/ a.graphics_software_type \in {"view_only", "full_control"}
                     \/ a.network_type # "none"
            two == \/ a.network_type \in {"smfo", "mmfo"}
                   \/ a.graphics_software_type = "full_control"
        IN  /\ r.requires_network_cards = needs
            /\ (r.network_links = 0) = ~needs
            /\ (r.network_links = 2) = two
            /\ (needs /\ ~two) => r.network_links = 1
            /\ ("4100-6080" \in DOMAIN result.plan) = needs
            /\ needs => result.plan["4100-6080"] = r.network_links

\* a fibre network without command centre or graphics software: two links,
\* two network interfaces
FibreNetworkTwoLinks ==
    /\ Planned
    /\ call.answers.network_type = "smfo"
    /\ ~call.answers.has_graphics_command_center
    /\ call.answers.graphics_software_type = "none"
    /\ result.requirements.network_links = 2
    /\ result.plan["4100-6080"] = 2

\* a call of derive_category_requirements has returned
Derived == pc = "returned" /\ call.op = "derive_category_requirements"

\* the Relay Modules demand that relays and smoke management ask for:
\* max(1, ceil(max(1, relay_count) / 3))
IsRelayBase(n, r) == IsLeastCover(n, Max(1, r.relay_count), 3)

----------------------------------------------------------------------------
(* Properties of the placement-rule loader *)

\* the rows of a sheet that have a non-empty cell, in sheet order
FilledRows(sheet) ==
    SelectSeq([r \in DOMAIN sheet |-> r], LAMBDA r : FirstCell(sheet[r]) # 0)

\* the label current at level j when row r is read: the first cell of the
\* latest earlier row that starts at level j, unless a later row before r
\* starts at a level to its left; the empty cell when there is none
AncestorLabel(sheet, r, j) ==
    LET starts == {q \in 1..(r - 1) :
                    /\ FirstCell(sheet[q]) = j
                    /\ \A t \in (q + 1)..(r - 1) :
                            FirstCell(sheet[t]) = 0 \/ FirstCell(sheet[t]) >= j}
    IN  IF starts = {} THEN <<>>
        ELSE sheet[CHOOSE q \in starts : \A other \in starts : other <= q][j]

\* C23: the loader emits one rule for every row that has a non-empty cell,
\* rows that start in the leftmost column included; the text of the rule is
\* the first non-empty cell of the row and its path is the list of the
\* non-empty ancestor labels current in the columns to its left
EveryFilledRowGivesRule ==
    (pc = "returned" /\ call.op = "load_placement_rules") =>
        LET sheet == call.sheet
            filled == FilledRows(sheet)
        IN  /\ Len(placement_rules) = Len(filled)
            /\ \A k \in DOMAIN filled :
                    LET r == filled[k]
                        idx == FirstCell(sheet[r])
                    IN  /\ k \in DOMAIN placement_rules
                        /\ placement_rules[k].text = sheet[r][idx]
                        /\ placement_rules[k].path =
                                SelectSeq([j \in 1..(idx - 1) |-> AncestorLabel(sheet, r, j)],
                                          LAMBDA label : label # <<>>)

----------------------------------------------------------------------------
(* Properties of _merge_unique *)

\* the first occurrences of the case-folded non-empty strings of a list, as
\* spelled there and in the order of the list
FirstSpellings(list) ==
    LET first == SelectSeq([i \in DOMAIN list |-> i],
                           LAMBDA i :
                                /\ list[i] # ""
                                /\ \A j \in 1..(i - 1) : LowerStr(list[j]) # LowerStr(list[i]))
    IN  [k \in DOMAIN first |-> list[first[k]]]

\* C24: the result of _merge_unique(values, additions) has exactly one
\* entry per distinct case-folded non-empty string of values followed by
\* additions, spelled as its first occurrence and listed in first-occurrence
\* order; merging the same additions into the result again changes nothing
MergeKeepsFirstSpelling ==
    (pc = "returned" /\ call.op = "merge_unique") =>
        /\ result.merged = FirstSpellings(call.values \o call.additions)
        /\ MergeUnique(result.merged, call.additions) = result.merged

----------------------------------------------------------------------------
(* The project configurator: one ProjectConfigurator with its list of panel *)
(* configurations, one QandAProcessor with its answers record, and calls of *)
(* process_project, get_cpsat_inputs and process_answers.  An answer        *)
(* dictionary maps question numbers to answer texts; the texts of the model *)
(* are single words, so that `keyword in text` is membership of the text in *)
(* the words that hold the keyword, and none of them carries a digit (the   *)
(* wattage of Q20 and the relay count of Q26 parse to 0).  A panel id       *)
(* f"PANEL-{i}" is the pair <<"PANEL", i>>.  The Q&A workbook loads.        *)

MaxProjects == 2

\* the answer dictionaries of the calls
QaAnswers ==
    {EmptyDict,
     Put(Put(Put(Put(Put(Put(EmptyDict, 25, "LCD"), 27, "smfo"), 28, "220vac"),
                 29, "full"), 34, "yes"), 35, "Yes"),
     Put(Put(Put(EmptyDict, 13, "touch"), 27, "ethernet"), 29, "view")}

\* QandAProcessor.process_answers on a processor whose answers are prev
process_answers(prev, answers_dict) ==
    LET lowered == [k \in DOMAIN answers_dict |-> LowerStr(answers_dict[k])]
        yes(q) == Get(lowered, q, "None") = "yes"
        text(q) == Get(lowered, q, "")
    IN  [prev EXCEPT
            !.protocol = IF yes(2) \/ yes(3) \/ yes(5) \/ yes(6) \/ yes(7)
                         THEN "mx" ELSE "idnet2",
            !.has_voice_evacuation = yes(8),
            !.audio_type = IF yes(8) \/ yes(10) THEN "voice_evacuation"
                           ELSE "no_audio",
            !.has_speakers = IF yes(8) \/ yes(10) THEN TRUE ELSE @,
            !.has_horns = IF ~yes(8) /\ yes(10) THEN TRUE ELSE @,
            !.use_addressable_nac = yes(11) \/ yes(12),
            !.display_type = IF text(13) \in {"touch", "tsd"} THEN "touch_screen"
                             ELSE "2x40_lcd",
            !.has_fire_phone = yes(14),
            !.nac_class_a_wiring = yes(15),
            !.speaker_class_a_wiring = yes(16),
            !.dual_amplifier_per_zone = yes(18),
            !.constant_supervision_speaker = yes(19),
            !.speaker_wattage = 0,
            !.backup_amplifier_one_to_one = yes(21),
            !.backup_amplifier_one_for_all = yes(22),
            !.has_panel_printer = yes(23),
            !.has_graphics_command_center = yes(24),
            !.annunciator_type = IF text(25) \in {"lcd", "rui"} THEN "lcd"
                                 ELSE IF text(25) = "led" THEN "led"
                                 ELSE IF text(25) = "mimic" THEN "mimic"
                                 ELSE @,
            !.has_smoke_management = yes(26),
            !.smoke_management_relay_count = 0,
            !.network_type = IF text(27) \in {"smfo", "single"} THEN "smfo"
                             ELSE IF text(27) \in {"mmfo", "multi"} THEN "mmfo"
                             ELSE IF text(27) \in {"ethernet", "wired"} THEN "ethernet"
                             ELSE @,
            !.door_holder_voltage = IF text(28) \in {"220", "ac", "220vac"}
                                    THEN "220vac" ELSE @,
            !.graphics_software_type =
                IF text(29) \in {"full", "control", "disable"} THEN "full_control"
                ELSE IF text(29) \in {"view", "economic"} THEN "view_only"
                ELSE @,
            !.speakers_with_visual = yes(30),
            !.monitor_modules_with_leds = yes(31),
            !.fire_damper_feedback = yes(32),
            !.fire_damper_led_indication = yes(33),
            !.audio_control_led_switches = yes(34),
            !.remote_annunciator_with_audio_control = yes(35)]

\* QandAProcessor.to_cpsat_constraints on the answers a
to_cpsat_constraints(a) ==
    LET constraints ==
            [protocol |-> a.protocol,
             prefer_idnet2 |-> a.protocol = "idnet2",
             prefer_mx |-> a.protocol = "mx",
             voice_evacuation |-> a.audio_type = "voice_evacuation",
             audio_type |-> IF a.audio_type # "no_audio" THEN "analog" ELSE "None",
             speaker_wattage_total |-> a.speaker_wattage,
             dual_amplifier_per_zone |-> a.dual_amplifier_per_zone,
             constant_supervision_speaker |-> a.constant_supervision_speaker,
             backup_amplifier_one_to_one |-> a.backup_amplifier_one_to_one,
             backup_amplifier_one_for_all |-> a.backup_amplifier_one_for_all,
             speakers_with_visual |-> a.speakers_with_visual,
             prefer_addressable_nac |-> a.use_addressable_nac,
             nac_class_a_wiring |-> a.nac_class_a_wiring,
             speaker_class_a_wiring |-> a.speaker_class_a_wiring,
             display_type |-> a.display_type,
             fire_phone_required |-> a.has_fire_phone,
             fire_phone_jack_count |-> a.fire_phone_jack_count,
             printer_required |-> a.has_panel_printer,
             network_connection |->
                a.has_graphics_command_center \/ a.network_type # "none",
             network_type |-> a.network_type,
             graphics_command_center |-> a.has_graphics_command_center,
             graphics_software_type |-> a.graphics_software_type,
             annunciator_type |-> a.annunciator_type,
             remote_annunciator_with_audio |-> a.remote_annunciator_with_audio_control,
             smoke_management |-> a.has_smoke_management,
             smoke_management_relay_count |-> a.smoke_management_relay_count,
             door_holder_voltage |-> a.door_holder_voltage,
             monitor_modules_with_leds |-> a.monitor_modules_with_leds,
             fire_damper_feedback |-> a.fire_damper_feedback,
             fire_damper_led_indication |-> a.fire_damper_led_indication,
             audio_control_led_switches |-> a.audio_control_led_switches]
        \* the one value that can be None is the audio type
        none_keys == IF constraints.audio_type = "None" THEN {"audio_type"} ELSE {}
    IN  [k \in DOMAIN constraints \ none_keys |-> constraints[k]]

\* RemoteAnnunciatorHandler.create_annunciator_config
create_annunciator_config(main_panel_constraints, has_audio_control, has_microphone, has_led_switches) ==
    LET base ==
            [panel_type |-> "remote_annunciator",
             protocol |-> Get(main_panel_constraints, "protocol", "idnet2"),
             display_type |->
                IF Get(main_panel_constraints, "display_type", "None") = "touch_screen"
                THEN "touch_screen" ELSE "2x40_lcd",
             network_connection |-> TRUE]
        annunciator_constraints ==
            IF has_audio_control
            THEN [base EXCEPT !.panel_type = "remote_annunciator_with_incident_commander"]
                 @@ [has_audio_control |-> TRUE,
                     audio_microphone |-> has_microphone,
                     audio_led_switches |-> has_led_switches]
            ELSE base
    IN  [panel_id |-> <<"ANNUNCIATOR", 1>>,
         boq |-> [ZeroBoq EXCEPT !.remote_annunciator = 1],
         constraints |-> annunciator_constraints,
         is_main_panel |-> FALSE,
         is_remote_annunciator |-> TRUE]

\* ProjectConfigurator.process_project on a configurator whose list is
\* configurations: the list it leaves in self.panel_configurations and returns
process_project(configurations, qa_answers, total, n) ==
    LET project_answers == process_answers(DefaultAnswers, qa_answers)
        constraints == to_cpsat_constraints(project_answers)
        base_constraints ==
            IF total.fire_phone_jack > 0
            THEN Put(Put(constraints, "fire_phone_jack_count", total.fire_phone_jack),
                     "fire_phone_circuits", CeilDiv(total.fire_phone_jack, 10))
            ELSE constraints
        boqs == IF n > 1 THEN divide_equal(total, n) ELSE <<total>>
        mains == [idx \in DOMAIN boqs |->
                    [panel_id |-> <<"PANEL", idx>>,
                     boq |-> boqs[idx],
                     constraints |-> base_constraints,
                     is_main_panel |-> TRUE,
                     is_remote_annunciator |-> FALSE]]
        with_audio ==
            IF project_answers.remote_annunciator_with_audio_control
            THEN <<create_annunciator_config(
                        base_constraints, TRUE,
                        project_answers.audio_control_led_switches,
                        project_answers.audio_control_led_switches)>>
            ELSE <<>>
        from_boq ==
            IF /\ total.remote_annunciator > 0
               /\ ~project_answers.remote_annunciator_with_audio_control
            THEN [idx \in 1..total.remote_annunciator |->
                    [create_annunciator_config(base_constraints, FALSE, FALSE, FALSE)
                        EXCEPT !.panel_id = <<"ANNUNCIATOR", idx>>]]
            ELSE <<>>
    IN  configurations \o mains \o with_audio \o from_boq

\* ProjectConfigurator() and a QandAProcessor on a workbook
InitProject ==
    /\ NoRepository
    /\ NoHandler
    /\ pc = "idle"
    /\ call = NoCall
    /\ result = NoResult

\* a call of process_project(path, qa_answers, total_boq, num_panels); the
\* processor it constructs becomes the configurator's qa_processor
ProcessProject ==
    /\ pc = "idle"
    /\ Cardinality({i \in DOMAIN panel_configurations :
                        panel_configurations[i].panel_id = <<"PANEL", 1>>})
            < MaxProjects
    /\ \E qa_answers \in QaAnswers, n \in 1..MaxPanels, k \in 0..MaxCount,
          annunciators \in {0, MaxQuantity} :
        LET total == [ZeroBoq EXCEPT !.smoke_detector = k, !.fire_phone_jack = k,
                                     !.addressable_strobe = k,
                                     !.remote_annunciator = annunciators]
        IN  /\ call' = [op |-> "process_project", qa_answers |-> qa_answers,
                        total_boq |-> total, num_panels |-> n,
                        fresh |-> panel_configurations = <<>>]
            /\ panel_configurations' =
                    process_project(panel_configurations, qa_answers, total, n)
            /\ self_answers' = process_answers(DefaultAnswers, qa_answers)
    /\ result' = [op |-> "process_project", value |-> panel_configurations']
    /\ pc' = "returned"
    /\ UNCHANGED <<cp_model, repoVars, engine, total_boq, num_panels, panel_boqs>>

\* a call of get_cpsat_inputs()
GetCpsatInputs ==
    /\ pc = "idle"
    /\ panel_configurations # <<>>
    /\ call' = [op |-> "get_cpsat_inputs"]
    /\ result' =
        [op |-> "get_cpsat_inputs",
         value |->
            [i \in DOMAIN panel_configurations |->
                LET boq == panel_configurations[i].boq
                    keys == {"smoke_detector", "heat_detector", "duct_detector",
                             "beam_detector", "manual_station", "horn_strobe",
                             "strobe_only", "horn_only", "addressable_horn_strobe",
                             "speaker", "speaker_strobe", "monitor_module",
                             "control_relay", "fire_phone_jack"}
                IN  <<[k \in {key \in keys : boq[key] > 0} |-> boq[k]],
                      panel_configurations[i].constraints>>]]
    /\ pc' = "returned"
    /\ UNCHANGED <<cp_model, repoVars, engine, handlerVars>>

\* a call of process_answers(answers_dict) on the processor
ProcessAnswers ==
    /\ pc = "idle"
    /\ \E answers_dict \in QaAnswers :
        /\ call' = [op |-> "process_answers", answers_dict |-> answers_dict]
        /\ self_answers' = process_answers(self_answers, answers_dict)
    /\ result' = [op |-> "process_answers", value |-> self_answers']
    /\ pc' = "returned"
    /\ UNCHANGED <<cp_model, repoVars, engine, total_boq, num_panels, panel_boqs,
                   panel_configurations>>

NextProject == ProcessProject \/ GetCpsatInputs \/ ProcessAnswers \/ Collect

SpecProject == InitProject /\ [][NextProject]_vars

\* process_project has returned
Processed == pc = "returned" /\ call.op = "process_project"


\* the remote-annunciator configurations of a list
Annunciators(configurations) ==
    {i \in DOMAIN configurations : configurations[i].is_remote_annunciator}

\* an answer dictionary says yes to question q
SaysYes(answers_dict, q) == LowerStr(Get(answers_dict, q, "None")) = "yes"

\* C25: one process_project call on a fresh configurator returns at least
\* total_boq.remote_annunciator configurations with is_remote_annunciator
\* set, and at least one when remote_annunciator_with_audio_control is yes
EveryAnnunciatorEmitted ==
    (Processed /\ call.fresh) =>
        /\ Cardinality(Annunciators(result.value)) >= call.total_boq.remote_annunciator
        /\ SaysYes(call.qa_answers, 35) =>
                Cardinality(Annunciators(result.value)) >= 1


\* C26: in every main-panel configuration process_project returns, the
\* constraints entry fire_phone_jack_count equals the fire_phone_jack count
\* of the BOQ of that configuration (checked on the first call of a
\* configurator, where the list holds the configurations of that call only)
JackCountIsPanelBoq ==
    (Processed /\ call.fresh) =>
        \A i \in DOMAIN result.value :
            result.value[i].is_main_panel =>
                /\ "fire_phone_jack_count" \in DOMAIN result.value[i].constraints
                /\ result.value[i].constraints["fire_phone_jack_count"]
                        = result.value[i].boq.fire_phone_jack


\* C28: the list a process_project call with num_panels = N returns holds
\* exactly N main-panel configurations, with PANEL-1..PANEL-N once each,
\* and its panel ids are pairwise distinct, on a configurator that has
\* processed a project before as on a fresh one
ReturnsThePanelsOfTheCall ==
    Processed =>
        LET mains == {i \in DOMAIN result.value : result.value[i].is_main_panel}
        IN  /\ Cardinality(mains) = call.num_panels
            /\ \A k \in 1..call.num_panels :
                    Cardinality({i \in mains :
                                    result.value[i].panel_id = <<"PANEL", k>>}) = 1
            /\ \A i, j \in DOMAIN result.value :
                    i # j => result.value[i].panel_id # result.value[j].panel_id


\* C29: the record process_answers returns depends only on the answers
\* dictionary of the call: after any earlier calls on the same processor it
\* is, field by field, the record a fresh processor returns for that
\* dictionary
AnswersDependOnCallOnly ==
    (pc = "returned" /\ call.op = "process_answers") =>
        \A field \in DOMAIN result.value :
            result.value[field]
                = process_answers(DefaultAnswers, call.answers_dict)[field]


\* C30: for every panel configuration, each BOQ field build_requirements
\* reads (every count field but remote_annunciator) with a count above 0 is
\* in the boq_dict get_cpsat_inputs returns for it, under its name and with
\* the same count, and a field is left out only when its count is 0
InputsKeepEveryCountedDevice ==
    (pc = "returned" /\ call.op = "get_cpsat_inputs") =>
        /\ Len(result.value) = Len(panel_configurations)
        /\ \A i \in DOMAIN panel_configurations :
            \A field \in BoqFields \ {"remote_annunciator"} :
                IF panel_configurations[i].boq[field] > 0
                THEN /\ field \in DOMAIN result.value[i][1]
                     /\ result.value[i][1][field] = panel_configurations[i].boq[field]
                ELSE field \notin DOMAIN result.value[i][1]


====
